---- MODULE Spec2Model ----
(***************************************************************************)
(* Model of the campus navigation engine (app/navigation/navigator.py)     *)
(* together with the parts of the store (app/data/database.py) it uses.    *)
(*                                                                         *)
(* Geometry.  Coordinates are points of one meridian, given in metres of   *)
(* arc.  On a meridian the haversine formula of _calculate_distance gives  *)
(* R * |lat2 - lat1|, so the distance of two points is the absolute value  *)
(* of their difference.                                                    *)
(*                                                                         *)
(* Threads.  The navigator takes no lock.  Three kinds of thread run its   *)
(* code: the caller of start/stop (the UI thread), the positioning         *)
(* source's callback thread (_on_location_update), and one thread per      *)
(* threading.Timer of the synthetic driver.  Each handler is cut where it  *)
(* has read the shared fields and has not yet written them, so that the    *)
(* interleavings the threads can produce are the model's behaviours.       *)
(***************************************************************************)
EXTENDS Integers, Sequences, FiniteSets

VARIABLES
    GPS_AVAILABLE,              \* navigator.py:13-18, fixed at import
    locations,                  \* table locations of the store
    routes,                     \* table routes of the store
    navigation_history,         \* table navigation_history, in insertion order
    is_navigating,              \* CampusNavigator fields, navigator.py:53-62
    current_route,
    current_instruction_index,
    current_location,
    destination,
    last_gps_update,
    gps_running,                \* plyer gps started and not stopped
    gps_started,                \* gps.start has returned normally before
    timers,                     \* threading.Timer objects started, not yet fired
    running,                    \* timer callbacks past their guard (line 239)
    gpsPc,                      \* position of the positioning callback thread
    gpsLocal,                   \* its local variable `waypoints` (a route id)
    callPc,                     \* position of the caller of start/stop
    trace,                      \* calls received and announcer calls made, in order
    budget,                     \* calls the environment may still make
    status_returned,            \* the dict get_navigation_status returned last
    status_shares_location,     \* its 'current_location' is the very dict
                                \* self.current_location refers to
    returned,                   \* the last call of a query and what it returned
    user_settings,              \* table user_settings of the store
    audio_queue,                \* AccessibilityManager.audio_queue
    is_speaking,                \* AccessibilityManager.is_speaking
    camera,                     \* OCRReader.camera is not None
    is_running,                 \* OCRReader.is_running
    ocr_thread,                 \* OCRReader.ocr_thread, a thread by its number
    ocr_workers                 \* the _ocr_worker threads alive, each with its
                                \* position

vars == <<GPS_AVAILABLE, locations, routes, navigation_history, is_navigating,
          current_route, current_instruction_index, current_location,
          destination, last_gps_update, gps_running, gps_started, timers,
          running, gpsPc, gpsLocal, callPc, trace, budget, status_returned,
          status_shares_location, returned, user_settings, audio_queue,
          is_speaking, camera, is_running, ocr_thread, ocr_workers>>

\* The text reader's state.
ocr_fields == <<camera, is_running, ocr_thread, ocr_workers>>

\* The state beside the navigator's session: the navigator's operations
\* leave it alone.
beside_navigator ==
    <<returned, user_settings, audio_queue, is_speaking, ocr_fields>>

\* The navigator's session, which the store's and the announcer's own
\* operations leave alone.
navigator_fields ==
    <<GPS_AVAILABLE, navigation_history, is_navigating, current_route,
      current_instruction_index, current_location, destination,
      last_gps_update, gps_running, gps_started, timers, running, gpsPc,
      gpsLocal, callPc, status_returned, status_shares_location>>

\* ------------------------------------------------------------------ bounds
MaxCalls == 3
MaxReports == 3
MaxReads == 1

\* --------------------------------------------------------------- constants
instruction_distance_threshold == 20
waypoint_reached_distance == 5
simulated_latitude == 0
simulated_accuracy == 5

\* Python's None for the integer-valued fields (ids are positive).
None == 0
NoLocation == [latitude |-> -1, accuracy |-> -1]

\* No query was called yet.
NoCall == [op |-> "none"]

\* OCRReader as constructed (ocr_reader.py:55-59): not running, no thread.
OcrIdle ==
    /\ is_running = FALSE
    /\ ocr_thread = None
    /\ ocr_workers = {}

\* ------------------------------------------------------------------- store
Waypoint(lat, instruction) == [lat |-> lat, instruction |-> instruction]

\* Rows of table locations.  name and category are ranks in the collation
\* order of the TEXT columns; latitude is in metres of arc.
SampleLocations ==
    { [id |-> 1, name |-> 1, category |-> 2, latitude |-> 10],
      [id |-> 2, name |-> 1, category |-> 1, latitude |-> 50],
      [id |-> 3, name |-> 2, category |-> 2, latitude |-> 47],
      [id |-> 4, name |-> 1, category |-> 3, latitude |-> 90] }

\* Rows of table routes.  An instruction text is identified by a number.
\* Routes 1 and 5 join the same pair; routes 3 and 6 have an empty waypoint
\* list.
SampleRoutes ==
    { [id |-> 1, start_location_id |-> 1, end_location_id |-> 2,
       waypoints |-> <<Waypoint(10, 11), Waypoint(47, 12), Waypoint(50, 13)>>,
       distance |-> 150, is_accessible |-> 1],
      [id |-> 2, start_location_id |-> 1, end_location_id |-> 3,
       waypoints |-> <<Waypoint(47, 21)>>,
       distance |-> 37, is_accessible |-> 1],
      [id |-> 3, start_location_id |-> 3, end_location_id |-> 2,
       waypoints |-> <<>>,
       distance |-> 3, is_accessible |-> 1],
      [id |-> 4, start_location_id |-> 3, end_location_id |-> 1,
       waypoints |-> <<Waypoint(47, 41), Waypoint(10, 42)>>,
       distance |-> 37, is_accessible |-> 1],
      [id |-> 5, start_location_id |-> 1, end_location_id |-> 2,
       waypoints |-> <<Waypoint(50, 51)>>,
       distance |-> 40, is_accessible |-> 0],
      [id |-> 6, start_location_id |-> 1, end_location_id |-> 4,
       waypoints |-> <<>>,
       distance |-> 80, is_accessible |-> 1] }

\* Destinations a caller may pass, and the latitudes a position report may
\* carry; NoFix stands for a report without the lat or the lon field.
LocationIds == {1, 2, 3, 4}
ReportLatitudes == {15, 30, 48}
NoFix == -1

\* ------------------------------------------------------------------- trace
\* An entry of the trace.  The calls received are recorded as call_start
\* (a: the destination, b: the route found or None), call_stop and
\* call_report (a: the latitude or NoFix); every other entry is a call made on
\* the announcer.
Ev(k, a, b) == [k |-> k, a |-> a, b |-> b]

\* ------------------------------------------------------------- store reads
\* ORDER BY category, name of get_locations_by_category (database.py:113).
LocationOrderKey(l) == l.category * 10 + l.name

RECURSIVE OrderedLocations(_)
OrderedLocations(S) ==
    IF S = {} THEN <<>>
    ELSE LET first == CHOOSE x \in S :
                          \A y \in S : LocationOrderKey(x) <= LocationOrderKey(y)
         IN  <<first>> \o OrderedLocations(S \ {first})

\* DatabaseManager.get_locations_by_category(), no category given.
get_locations_by_category == OrderedLocations(locations)

\* Mutant of get_route: ORDER BY distance ASC alone.
get_route_shortest(start_location_id, end_location_id) ==
    LET rows == { r \in routes : /\ r.start_location_id = start_location_id
                                 /\ r.end_location_id = end_location_id }
        best == { r \in rows : \A q \in rows : r.distance <= q.distance }
    IN  IF rows = {} THEN None
        ELSE (CHOOSE r \in best : \A q \in best : r.id <= q.id).id

\* DatabaseManager.get_route: ORDER BY is_accessible DESC, distance ASC LIMIT 1.
\* The result is the id of the selected row, None when no row matches.
get_route(start_location_id, end_location_id) ==
    LET rows == { r \in routes : /\ r.start_location_id = start_location_id
                                 /\ r.end_location_id = end_location_id }
        best == { r \in rows : \A q \in rows :
                     \/ r.is_accessible > q.is_accessible
                     \/ /\ r.is_accessible = q.is_accessible
                        /\ r.distance <= q.distance }
    IN  IF rows = {} THEN None
        ELSE (CHOOSE r \in best : \A q \in best : r.id <= q.id).id

\* The route dictionary held in current_route, by its id.
RouteById(id) == CHOOSE r \in routes : r.id = id

WaypointsOf(id) == RouteById(id).waypoints

\* --------------------------------------------------------------- geometry
\* CampusNavigator._calculate_distance on one meridian.
calculate_distance(lat1, lat2) == IF lat1 >= lat2 THEN lat1 - lat2 ELSE lat2 - lat1

\* CampusNavigator._find_nearest_location: the scan keeps the first location
\* of the store's order whose distance is strictly smaller than all before.
RECURSIVE NearestScan(_, _, _, _)
NearestScan(locs, lat, min_distance, nearest_location) ==
    IF locs = <<>> THEN nearest_location
    ELSE LET loc_data == Head(locs)
             distance == calculate_distance(lat, loc_data.latitude)
         IN  IF min_distance = -1 \/ distance < min_distance
             THEN NearestScan(Tail(locs), lat, distance, loc_data.id)
             ELSE NearestScan(Tail(locs), lat, min_distance, nearest_location)

\* Mutant of find_nearest_location: among the locations at the minimal
\* distance the one with the smallest id is returned.
find_nearest_location_by_id(lat) ==
    IF locations = {} THEN None
    ELSE (CHOOSE l \in locations :
              \A m \in locations :
                  LET dl == calculate_distance(lat, l.latitude)
                      dm == calculate_distance(lat, m.latitude)
                  IN  dl < dm \/ (dl = dm /\ l.id <= m.id)).id

find_nearest_location(lat) == NearestScan(get_locations_by_category, lat, -1, None)

\* list.sort(key=lambda x: x[1]) of get_nearby_locations (navigator.py:361):
\* the sort is stable, a pair goes behind the pairs of the same distance
\* that were appended before it.
RECURSIVE SortedByDistance(_)
SortedByDistance(pairs) ==
    IF pairs = <<>> THEN <<>>
    ELSE LET n == Len(pairs)
             before == SortedByDistance(SubSeq(pairs, 1, n - 1))
             k == Cardinality({ i \in 1..Len(before) :
                                    before[i].distance <= pairs[n].distance })
         IN  SubSeq(before, 1, k) \o <<pairs[n]>>
                 \o SubSeq(before, k + 1, Len(before))

\* The pairs (location, distance) of get_nearby_locations in the order they
\* are appended (navigator.py:340-359), a location standing for its id.
RECURSIVE NearbyScan(_, _, _)
NearbyScan(locs, lat, radius) ==
    IF locs = <<>> THEN <<>>
    ELSE LET loc_data == Head(locs)
             distance == calculate_distance(lat, loc_data.latitude)
         IN  (IF distance <= radius
              THEN <<[location |-> loc_data.id, distance |-> distance]>>
              ELSE <<>>) \o NearbyScan(Tail(locs), lat, radius)

\* Mutant of get_nearby_locations: the pairs are returned as they were
\* appended, the sort is left out.
get_nearby_locations_unsorted(radius) ==
    IF current_location = NoLocation THEN <<>>
    ELSE LET nearby_locations ==
                 NearbyScan(get_locations_by_category,
                            current_location.latitude, radius)
         IN  [i \in 1..Len(nearby_locations) |-> nearby_locations[i].location]

\* CampusNavigator.get_nearby_locations: the ids of the locations returned,
\* in the order of the returned list.
get_nearby_locations(radius) ==
    IF current_location = NoLocation THEN <<>>
    ELSE LET nearby_locations ==
                 SortedByDistance(NearbyScan(get_locations_by_category,
                                             current_location.latitude, radius))
         IN  [i \in 1..Len(nearby_locations) |-> nearby_locations[i].location]

\* CampusNavigator._get_simulated_current_location.
get_simulated_current_location ==
    [latitude |-> simulated_latitude, accuracy |-> simulated_accuracy]


\* -------------------------------------------------------------- announcer
\* Calls made on the AccessibilityManager, in the order they are made.

\* Mutant of announce_navigation_instruction: an instruction that was the
\* last thing announced is not announced again.
announce_navigation_instruction_once(instruction, distance) ==
    IF /\ SelectSeq(trace, LAMBDA e : e.k = "instruction") # <<>>
       /\ LET said == SelectSeq(trace, LAMBDA e : e.k = "instruction")
          IN  said[Len(said)].a = instruction
    THEN <<>>
    ELSE <<Ev("instruction", instruction, IF distance # 0 THEN distance ELSE -1)>>

\* announce_navigation_instruction speaks the distance only when it is
\* truthy (accessibility.py:252): a distance of 0 is left out.
announce_navigation_instruction(instruction, distance) ==
    <<Ev("instruction", instruction, IF distance # 0 THEN distance ELSE -1)>>

\* announce_arrival: the sound cue, then the spoken arrival.
announce_arrival(name) == <<Ev("cue_end", 0, 0), Ev("arrival", name, 0)>>

\* Mutant of announce_error: the error is announced a second time.
announce_error_twice(kind, name) ==
    <<Ev("cue_error", 0, 0), Ev("error", kind, name),
      Ev("cue_error", 0, 0), Ev("error", kind, name)>>

\* announce_error: the sound cue, then the spoken error.
announce_error(kind, name) == <<Ev("cue_error", 0, 0), Ev("error", kind, name)>>

\* speak("navigation started") and play_sound('navigation_start').
AnnounceStart(name) == <<Ev("started", name, 0), Ev("cue_start", 0, 0)>>

\* speak("navigation stopped").
AnnounceStopped == <<Ev("stopped", 0, 0)>>

NoStartLocation == 1
NoRouteFound == 2


\* ------------------------------------------------------------------ guards
\* Mutant of InstructionDue: the boundary of 20 m is left out.
InstructionDue_exclusive(distance) == distance < instruction_distance_threshold

\* navigator.py:287, the instruction radius.
InstructionDue(distance) == distance <= instruction_distance_threshold

\* Mutant of WaypointReached: the boundary of 5 m is left out.
WaypointReached_exclusive(distance) == distance < waypoint_reached_distance

\* navigator.py:292, the waypoint is reached.
WaypointReached(distance) == distance <= waypoint_reached_distance

\* Mutant of UpdateInstructionRuns: is_navigating is not consulted.
UpdateInstructionRuns_unflagged(index, total_instructions) ==
    ~(index >= total_instructions)

\* navigator.py:239, the guard of update_instruction, negated.
UpdateInstructionRuns(index, total_instructions) ==
    ~(index >= total_instructions \/ ~is_navigating)

\* navigator.py:271-276, the guards of _check_navigation_progress, negated.
ProgressChecked ==
    /\ ~(~is_navigating \/ current_route = None)
    /\ ~(current_instruction_index >= Len(WaypointsOf(current_route)))

\* Number of start calls received so far: names the timer chain of a start.
StartsSoFar == Len(SelectSeq(trace, LAMBDA e : e.k = "call_start"))

\* gps.stop() at navigator.py:313-317 and 326-330.
GpsStopped == IF GPS_AVAILABLE THEN FALSE ELSE gps_running

\* The row add_navigation_history inserts (database.py:171-179).
HistoryRow(end_location, route_name) ==
    [end_location |-> end_location, route_name |-> route_name,
     completion_status |-> "completed"]

\* ------------------------------------------------------------------- Init
\* What the environment may call.  Either any MaxCalls calls of start, stop
\* and position reports, in any order; or one start and MaxReports position
\* reports, the journey along one route.
Budgets ==
    { [calls |-> MaxCalls, starts |-> MaxCalls, stops |-> MaxCalls,
       reads |-> MaxReads],
      [calls |-> MaxReports + 1, starts |-> 1, stops |-> 0, reads |-> 0] }

Init ==
    /\ GPS_AVAILABLE \in BOOLEAN
    /\ \/ locations = {} /\ routes = {}
       \/ locations = SampleLocations /\ routes = SampleRoutes
    /\ navigation_history = <<>>
    /\ is_navigating = FALSE
    /\ current_route = None
    /\ current_instruction_index = 0
    /\ current_location = NoLocation
    /\ destination = None
    /\ last_gps_update = 0
    /\ gps_running = FALSE
    /\ gps_started = FALSE
    /\ timers = {}
    /\ running = {}
    /\ gpsPc = "idle"
    /\ gpsLocal = None
    /\ callPc = "idle"
    /\ trace = <<>>
    /\ budget \in Budgets
    /\ status_returned = <<>>
    /\ status_shares_location = FALSE
    /\ returned = NoCall
    /\ user_settings = {}
    /\ audio_queue = <<>>
    /\ is_speaking = FALSE
    /\ camera = FALSE
    /\ OcrIdle

\* ---------------------------------------------------------------- actions
\* CampusNavigator._on_arrival, run after the announcer calls `said` of the
\* same step.  It reads destination and current_route as they are now.
on_arrival(said) ==
    /\ is_navigating' = FALSE
    /\ trace' = trace \o said \o announce_arrival(destination)
    /\ navigation_history' =
           Append(navigation_history, HistoryRow(destination, current_route))
    /\ gps_running' = GpsStopped

\* Mutant of start_navigation_to_destination: is_navigating is set before
\* the lookups, as destination is.
start_navigation_to_destination_eager(dest) ==
    /\ callPc = "idle"
    /\ budget.calls > 0 /\ budget.starts > 0
    /\ budget' = [budget EXCEPT !.calls = @ - 1, !.starts = @ - 1]
    /\ destination' = dest
    /\ current_location' = IF current_location = NoLocation
                           THEN get_simulated_current_location
                           ELSE current_location
    /\ LET start_loc == find_nearest_location(current_location'.latitude)
           route == IF start_loc = None THEN None ELSE get_route(start_loc, dest)
       IN  IF start_loc = None
           THEN /\ trace' = trace \o <<Ev("call_start", dest, None)>>
                              \o announce_error(NoStartLocation, 0)
                /\ is_navigating' = TRUE
                /\ UNCHANGED <<current_route, current_instruction_index,
                               callPc>>
           ELSE IF route = None
           THEN /\ trace' = trace \o <<Ev("call_start", dest, None)>>
                              \o announce_error(NoRouteFound, dest)
                /\ is_navigating' = TRUE
                /\ UNCHANGED <<current_route, current_instruction_index,
                               callPc>>
           ELSE /\ trace' = Append(trace, Ev("call_start", dest, route))
                /\ current_route' = route
                /\ current_instruction_index' = 0
                /\ is_navigating' = TRUE
                /\ callPc' = "attach"
    /\ UNCHANGED beside_navigator
    /\ UNCHANGED <<GPS_AVAILABLE, status_returned, status_shares_location,
                   gps_started, locations, routes, navigation_history,
                   last_gps_update, gps_running, timers, running, gpsPc,
                   gpsLocal>>

\* _start_navigation_to_destination, lines 138-164: the lookups and, when
\* both succeed, the new session's fields.
start_navigation_to_destination(dest) ==
    /\ callPc = "idle"
    /\ budget.calls > 0 /\ budget.starts > 0
    /\ budget' = [budget EXCEPT !.calls = @ - 1, !.starts = @ - 1]
    /\ destination' = dest
    /\ current_location' = IF current_location = NoLocation
                           THEN get_simulated_current_location
                           ELSE current_location
    /\ LET start_loc == find_nearest_location(current_location'.latitude)
           route == IF start_loc = None THEN None ELSE get_route(start_loc, dest)
       IN  IF start_loc = None
           THEN /\ trace' = trace \o <<Ev("call_start", dest, None)>>
                              \o announce_error(NoStartLocation, 0)
                /\ UNCHANGED <<current_route, current_instruction_index,
                               is_navigating, callPc>>
           ELSE IF route = None
           THEN /\ trace' = trace \o <<Ev("call_start", dest, None)>>
                              \o announce_error(NoRouteFound, dest)
                /\ UNCHANGED <<current_route, current_instruction_index,
                               is_navigating, callPc>>
           ELSE /\ trace' = Append(trace, Ev("call_start", dest, route))
                /\ current_route' = route
                /\ current_instruction_index' = 0
                /\ is_navigating' = TRUE
                /\ callPc' = "attach"
    /\ UNCHANGED beside_navigator
    /\ UNCHANGED <<GPS_AVAILABLE, status_returned, status_shares_location,
                   gps_started, locations, routes, navigation_history,
                   last_gps_update, gps_running, timers, running, gpsPc,
                   gpsLocal>>

\* Mutant of NextTimer: the timer is started for the waypoint after the next.
NextTimer_skipping(chain, route, index) ==
    IF index < Len(WaypointsOf(route)) - 1
    THEN {[chain |-> chain, route |-> route, index |-> index + 2]}
    ELSE {}

\* The timer update_instruction starts for the next waypoint (lines 258-261).
NextTimer(chain, route, index) ==
    IF index < Len(WaypointsOf(route)) - 1
    THEN {[chain |-> chain, route |-> route, index |-> index + 1]}
    ELSE {}

\* Mutant of update_instruction_body: the position is not moved to the
\* waypoint played.
update_instruction_body_still(route, index, before) ==
    LET waypoints == WaypointsOf(route)
        waypoint == waypoints[index + 1]
        distance == calculate_distance(current_location.latitude, waypoint.lat)
        said == before \o announce_navigation_instruction(waypoint.instruction,
                                                          distance)
    IN  /\ current_location' = current_location
        /\ status_returned' =
              IF status_shares_location /\ status_returned # <<>>
              THEN <<[status_returned[1] EXCEPT
                         !.current_location = current_location']>>
              ELSE status_returned
        /\ IF index < Len(waypoints) - 1
           THEN /\ trace' = trace \o said
                /\ UNCHANGED <<is_navigating, navigation_history, gps_running>>
           ELSE on_arrival(said)

\* update_instruction past its guard, lines 242-264, for waypoint `index` of
\* the route the closure holds; `before` are the announcer calls made
\* earlier in the same step.
update_instruction_body(route, index, before) ==
    LET waypoints == WaypointsOf(route)
        waypoint == waypoints[index + 1]
        distance == calculate_distance(current_location.latitude, waypoint.lat)
        said == before \o announce_navigation_instruction(waypoint.instruction,
                                                          distance)
    IN  /\ current_location' = [current_location EXCEPT !.latitude = waypoint.lat]
        /\ status_returned' =
              IF status_shares_location /\ status_returned # <<>>
              THEN <<[status_returned[1] EXCEPT
                         !.current_location = current_location']>>
              ELSE status_returned
        /\ IF index < Len(waypoints) - 1
           THEN /\ trace' = trace \o said
                /\ UNCHANGED <<is_navigating, navigation_history, gps_running>>
           ELSE on_arrival(said)

\* _simulate_navigation, lines 230-267: the first update_instruction runs in
\* the caller's thread.
simulate_navigation(before) ==
    IF /\ ~(current_route = None \/ ~is_navigating)
       /\ UpdateInstructionRuns(0, Len(WaypointsOf(current_route)))
    THEN /\ update_instruction_body(current_route, 0, before)
         /\ timers' = timers \cup NextTimer(StartsSoFar, current_route, 0)
    ELSE /\ trace' = trace \o before
         /\ UNCHANGED <<current_location, is_navigating, navigation_history,
                        gps_running, timers, status_returned>>

\* Mutant of start_attach: when gps.start raises, the start ends there.
start_attach_aborting(raises) ==
    /\ callPc = "attach"
    /\ callPc' = "idle"
    /\ IF GPS_AVAILABLE /\ ~raises
       THEN /\ gps_running' = TRUE
            /\ trace' = trace \o AnnounceStart(destination)
            /\ UNCHANGED <<current_location, is_navigating,
                           navigation_history, timers, status_returned>>
       ELSE IF GPS_AVAILABLE
       THEN /\ trace' = trace \o AnnounceStart(destination)
            /\ UNCHANGED <<current_location, is_navigating,
                           navigation_history, timers, status_returned,
                           gps_running>>
       ELSE simulate_navigation(AnnounceStart(destination))
    /\ gps_started' = (gps_started \/ (GPS_AVAILABLE /\ ~raises))
    /\ UNCHANGED beside_navigator
    /\ UNCHANGED <<GPS_AVAILABLE, status_shares_location, locations, routes,
                   current_route, current_instruction_index, destination,
                   last_gps_update, running, gpsPc, gpsLocal, budget>>

\* _start_navigation_to_destination, lines 166-177: the start is announced
\* and the driver is attached.  `raises` says whether gps.start raises.
start_attach(raises) ==
    /\ callPc = "attach"
    /\ callPc' = "idle"
    /\ IF GPS_AVAILABLE /\ ~raises
       THEN /\ gps_running' = TRUE
            /\ trace' = trace \o AnnounceStart(destination)
            /\ UNCHANGED <<current_location, is_navigating,
                           navigation_history, timers, status_returned>>
       ELSE simulate_navigation(AnnounceStart(destination))
    /\ gps_started' = (gps_started \/ (GPS_AVAILABLE /\ ~raises))
    /\ UNCHANGED beside_navigator
    /\ UNCHANGED <<GPS_AVAILABLE, status_shares_location, locations, routes,
                   current_route, current_instruction_index, destination,
                   last_gps_update, running, gpsPc, gpsLocal, budget>>

\* A threading.Timer fires: update_instruction(index) evaluates its guard
\* (lines 238-240) in the timer's thread.
timer_fire(t) ==
    /\ t \in timers
    /\ timers' = timers \ {t}
    /\ running' = IF UpdateInstructionRuns(t.index, Len(WaypointsOf(t.route)))
                  THEN running \cup {t}
                  ELSE running
    /\ UNCHANGED beside_navigator
    /\ UNCHANGED <<GPS_AVAILABLE, status_returned, status_shares_location,
                   gps_started, locations, routes, navigation_history,
                   is_navigating, current_route, current_instruction_index,
                   current_location, destination, last_gps_update,
                   gps_running, gpsPc, gpsLocal, callPc, trace, budget>>

\* update_instruction(index), lines 242-264, in the timer's thread.
update_instruction(t) ==
    /\ t \in running
    /\ running' = running \ {t}
    /\ update_instruction_body(t.route, t.index, <<>>)
    /\ timers' = timers \cup NextTimer(t.chain, t.route, t.index)
    /\ UNCHANGED beside_navigator
    /\ UNCHANGED <<GPS_AVAILABLE, status_shares_location, gps_started,
                   locations, routes, current_route,
                   current_instruction_index, destination, last_gps_update,
                   gpsPc, gpsLocal, callPc, budget>>

\* Mutant of on_location_update: the tick is processed whatever
\* is_navigating (the tests of lines 92 and 271 are left out).
on_location_update_unflagged(lat) ==
    /\ GPS_AVAILABLE /\ gps_started
    /\ gpsPc = "idle"
    /\ budget.calls > 0
    /\ budget' = [budget EXCEPT !.calls = @ - 1]
    /\ IF lat = NoFix
       THEN /\ trace' = Append(trace, Ev("call_report", NoFix, 0))
            /\ UNCHANGED <<current_location, last_gps_update, gpsPc, gpsLocal,
                           status_shares_location>>
       ELSE /\ current_location' = [latitude |-> lat, accuracy |-> 0]
            /\ status_shares_location' = FALSE
            /\ last_gps_update' = last_gps_update + 1
            /\ IF /\ current_route # None
                  /\ current_instruction_index < Len(WaypointsOf(current_route))
               THEN LET waypoints == WaypointsOf(current_route)
                        current_waypoint == waypoints[current_instruction_index + 1]
                        distance == calculate_distance(lat, current_waypoint.lat)
                    IN  IF InstructionDue(distance)
                        THEN /\ trace' = trace \o <<Ev("call_report", lat, 0)>>
                                  \o announce_navigation_instruction(
                                         current_waypoint.instruction, distance)
                             /\ IF WaypointReached(distance)
                                THEN gpsPc' = "advance" /\ gpsLocal' = current_route
                                ELSE UNCHANGED <<gpsPc, gpsLocal>>
                        ELSE /\ trace' = Append(trace, Ev("call_report", lat, 0))
                             /\ UNCHANGED <<gpsPc, gpsLocal>>
               ELSE /\ trace' = Append(trace, Ev("call_report", lat, 0))
                    /\ UNCHANGED <<gpsPc, gpsLocal>>
    /\ UNCHANGED beside_navigator
    /\ UNCHANGED <<GPS_AVAILABLE, status_returned, gps_started, locations,
                   routes, navigation_history, is_navigating, current_route,
                   current_instruction_index, destination, gps_running,
                   timers, running, callPc>>

\* Mutant of on_location_update: with the route exhausted the tick goes on
\* to the advance of lines 293-297 (the return of line 276 is left out).
on_location_update_exhausted(lat) ==
    /\ GPS_AVAILABLE /\ gps_started
    /\ gpsPc = "idle"
    /\ budget.calls > 0
    /\ budget' = [budget EXCEPT !.calls = @ - 1]
    /\ IF lat = NoFix
       THEN /\ trace' = Append(trace, Ev("call_report", NoFix, 0))
            /\ UNCHANGED <<current_location, last_gps_update, gpsPc, gpsLocal,
                           status_shares_location>>
       ELSE /\ current_location' = [latitude |-> lat, accuracy |-> 0]
            /\ status_shares_location' = FALSE
            /\ last_gps_update' = last_gps_update + 1
            /\ IF is_navigating /\ ProgressChecked
               THEN LET waypoints == WaypointsOf(current_route)
                        current_waypoint == waypoints[current_instruction_index + 1]
                        distance == calculate_distance(lat, current_waypoint.lat)
                    IN  IF InstructionDue(distance)
                        THEN /\ trace' = trace \o <<Ev("call_report", lat, 0)>>
                                  \o announce_navigation_instruction(
                                         current_waypoint.instruction, distance)
                             /\ IF WaypointReached(distance)
                                THEN gpsPc' = "advance" /\ gpsLocal' = current_route
                                ELSE UNCHANGED <<gpsPc, gpsLocal>>
                        ELSE /\ trace' = Append(trace, Ev("call_report", lat, 0))
                             /\ UNCHANGED <<gpsPc, gpsLocal>>
               ELSE /\ trace' = Append(trace, Ev("call_report", lat, 0))
                    /\ IF is_navigating /\ current_route # None
                       THEN gpsPc' = "advance" /\ gpsLocal' = current_route
                       ELSE UNCHANGED <<gpsPc, gpsLocal>>
    /\ UNCHANGED beside_navigator
    /\ UNCHANGED <<GPS_AVAILABLE, status_returned, gps_started, locations,
                   routes, navigation_history, is_navigating, current_route,
                   current_instruction_index, destination, gps_running,
                   timers, running, callPc>>

\* Mutant of on_location_update: a report without the lat or the lon field
\* still counts as an update of the position.
on_location_update_stamping(lat) ==
    /\ GPS_AVAILABLE /\ gps_started
    /\ gpsPc = "idle"
    /\ budget.calls > 0
    /\ budget' = [budget EXCEPT !.calls = @ - 1]
    /\ IF lat = NoFix
       THEN /\ trace' = Append(trace, Ev("call_report", NoFix, 0))
            /\ last_gps_update' = last_gps_update + 1
            /\ UNCHANGED <<current_location, gpsPc, gpsLocal,
                           status_shares_location>>
       ELSE /\ current_location' = [latitude |-> lat, accuracy |-> 0]
            /\ status_shares_location' = FALSE
            /\ last_gps_update' = last_gps_update + 1
            /\ IF is_navigating /\ ProgressChecked
               THEN LET waypoints == WaypointsOf(current_route)
                        current_waypoint == waypoints[current_instruction_index + 1]
                        distance == calculate_distance(lat, current_waypoint.lat)
                    IN  IF InstructionDue(distance)
                        THEN /\ trace' = trace \o <<Ev("call_report", lat, 0)>>
                                  \o announce_navigation_instruction(
                                         current_waypoint.instruction, distance)
                             /\ IF WaypointReached(distance)
                                THEN gpsPc' = "advance" /\ gpsLocal' = current_route
                                ELSE UNCHANGED <<gpsPc, gpsLocal>>
                        ELSE /\ trace' = Append(trace, Ev("call_report", lat, 0))
                             /\ UNCHANGED <<gpsPc, gpsLocal>>
               ELSE /\ trace' = Append(trace, Ev("call_report", lat, 0))
                    /\ UNCHANGED <<gpsPc, gpsLocal>>
    /\ UNCHANGED beside_navigator
    /\ UNCHANGED <<GPS_AVAILABLE, status_returned, gps_started, locations,
                   routes, navigation_history, is_navigating, current_route,
                   current_instruction_index, destination, gps_running,
                   timers, running, callPc>>

\* _on_location_update, lines 80-93, and _check_navigation_progress up to the
\* instruction announcement, lines 269-289.  lat = NoFix is a report without
\* the lat or the lon field.  plyer delivers reports to the callback
\* configured at line 75 only once gps.start (line 172) has returned; a
\* report may still be on its way when gps.stop is called.
on_location_update(lat) ==
    /\ GPS_AVAILABLE /\ gps_started
    /\ gpsPc = "idle"
    /\ budget.calls > 0
    /\ budget' = [budget EXCEPT !.calls = @ - 1]
    /\ IF lat = NoFix
       THEN /\ trace' = Append(trace, Ev("call_report", NoFix, 0))
            /\ UNCHANGED <<current_location, last_gps_update, gpsPc, gpsLocal,
                           status_shares_location>>
       ELSE /\ current_location' = [latitude |-> lat, accuracy |-> 0]
            /\ status_shares_location' = FALSE
            /\ last_gps_update' = last_gps_update + 1
            /\ IF is_navigating /\ ProgressChecked
               THEN LET waypoints == WaypointsOf(current_route)
                        current_waypoint == waypoints[current_instruction_index + 1]
                        distance == calculate_distance(lat, current_waypoint.lat)
                    IN  IF InstructionDue(distance)
                        THEN /\ trace' = trace \o <<Ev("call_report", lat, 0)>>
                                  \o announce_navigation_instruction(
                                         current_waypoint.instruction, distance)
                             /\ IF WaypointReached(distance)
                                THEN gpsPc' = "advance" /\ gpsLocal' = current_route
                                ELSE UNCHANGED <<gpsPc, gpsLocal>>
                        ELSE /\ trace' = Append(trace, Ev("call_report", lat, 0))
                             /\ UNCHANGED <<gpsPc, gpsLocal>>
               ELSE /\ trace' = Append(trace, Ev("call_report", lat, 0))
                    /\ UNCHANGED <<gpsPc, gpsLocal>>
    /\ UNCHANGED beside_navigator
    /\ UNCHANGED <<GPS_AVAILABLE, status_returned, gps_started, locations,
                   routes, navigation_history, is_navigating, current_route,
                   current_instruction_index, destination, gps_running,
                   timers, running, callPc>>

\* Mutant of check_navigation_progress_advance: the index advances past
\* every consecutive waypoint within 5 m of the reported position.
check_navigation_progress_advance_all ==
    /\ gpsPc = "advance"
    /\ gpsPc' = "idle"
    /\ gpsLocal' = None
    /\ LET waypoints == WaypointsOf(gpsLocal)
           reached(j) ==
               \A i \in (current_instruction_index + 2)..j :
                   /\ i <= Len(waypoints)
                   /\ WaypointReached(calculate_distance(
                          current_location.latitude, waypoints[i].lat))
       IN  current_instruction_index' =
               CHOOSE j \in (current_instruction_index + 1)..
                                (current_instruction_index + 1 + Len(waypoints)) :
                   /\ reached(j)
                   /\ ~reached(j + 1)
    /\ IF current_instruction_index' >= Len(WaypointsOf(gpsLocal))
       THEN on_arrival(<<>>)
       ELSE UNCHANGED <<is_navigating, trace, navigation_history, gps_running>>
    /\ UNCHANGED beside_navigator
    /\ UNCHANGED <<GPS_AVAILABLE, status_returned, status_shares_location,
                   gps_started, locations, routes, current_route,
                   current_location, destination, last_gps_update, timers,
                   running, callPc, budget>>

\* _check_navigation_progress, lines 291-297: the index advances and, at the
\* end of the local waypoint list, _on_arrival runs.
check_navigation_progress_advance ==
    /\ gpsPc = "advance"
    /\ gpsPc' = "idle"
    /\ gpsLocal' = None
    /\ current_instruction_index' = current_instruction_index + 1
    /\ IF current_instruction_index' >= Len(WaypointsOf(gpsLocal))
       THEN on_arrival(<<>>)
       ELSE UNCHANGED <<is_navigating, trace, navigation_history, gps_running>>
    /\ UNCHANGED beside_navigator
    /\ UNCHANGED <<GPS_AVAILABLE, status_returned, status_shares_location,
                   gps_started, locations, routes, current_route,
                   current_location, destination, last_gps_update, timers,
                   running, callPc, budget>>

\* Mutant of stop_navigation: the stop is announced whatever is_navigating.
stop_navigation_unguarded ==
    /\ callPc = "idle"
    /\ budget.calls > 0 /\ budget.stops > 0
    /\ budget' = [budget EXCEPT !.calls = @ - 1, !.stops = @ - 1]
    /\ is_navigating' = FALSE
    /\ trace' = trace \o <<Ev("call_stop", 0, 0)>> \o AnnounceStopped
    /\ gps_running' = GpsStopped
    /\ UNCHANGED beside_navigator
    /\ UNCHANGED <<GPS_AVAILABLE, status_returned, status_shares_location,
                   gps_started, locations, routes, navigation_history,
                   current_route, current_instruction_index, current_location,
                   destination, last_gps_update, timers, running, gpsPc,
                   gpsLocal, callPc>>

\* CampusNavigator.stop_navigation, lines 319-330.
stop_navigation ==
    /\ callPc = "idle"
    /\ budget.calls > 0 /\ budget.stops > 0
    /\ budget' = [budget EXCEPT !.calls = @ - 1, !.stops = @ - 1]
    /\ IF is_navigating
       THEN /\ is_navigating' = FALSE
            /\ trace' = trace \o <<Ev("call_stop", 0, 0)>> \o AnnounceStopped
            /\ gps_running' = GpsStopped
       ELSE /\ trace' = Append(trace, Ev("call_stop", 0, 0))
            /\ UNCHANGED <<is_navigating, gps_running>>
    /\ UNCHANGED beside_navigator
    /\ UNCHANGED <<GPS_AVAILABLE, status_returned, status_shares_location,
                   gps_started, locations, routes, navigation_history,
                   current_route, current_instruction_index, current_location,
                   destination, last_gps_update, timers, running, gpsPc,
                   gpsLocal, callPc>>

\* Mutant of get_navigation_status: a missing position is reported as the
\* simulated one.
get_navigation_status_located ==
    [is_navigating |-> is_navigating,
     destination |-> IF destination # None THEN destination ELSE None,
     current_instruction_index |-> current_instruction_index,
     total_instructions |-> IF current_route # None
                            THEN Len(WaypointsOf(current_route))
                            ELSE 0,
     current_location |-> IF current_location = NoLocation
                          THEN get_simulated_current_location
                          ELSE current_location]

\* CampusNavigator.get_navigation_status, lines 381-389.  A location is named
\* by its id; None and NoLocation stand for Python's None.
get_navigation_status ==
    [is_navigating |-> is_navigating,
     destination |-> IF destination # None THEN destination ELSE None,
     current_instruction_index |-> current_instruction_index,
     total_instructions |-> IF current_route # None
                            THEN Len(WaypointsOf(current_route))
                            ELSE 0,
     current_location |-> current_location]

\* Mutant of get_navigation_status_call: a missing position is filled in
\* with the simulated one, as a start does.
get_navigation_status_call_filling ==
    /\ budget.calls > 0 /\ budget.reads > 0
    /\ budget' = [budget EXCEPT !.calls = @ - 1, !.reads = @ - 1]
    /\ status_returned' = <<get_navigation_status>>
    /\ status_shares_location' = (current_location # NoLocation)
    /\ current_location' = IF current_location = NoLocation
                           THEN get_simulated_current_location
                           ELSE current_location
    /\ UNCHANGED beside_navigator
    /\ UNCHANGED <<GPS_AVAILABLE, locations, routes, navigation_history,
                   is_navigating, current_route, current_instruction_index,
                   destination, last_gps_update, gps_running,
                   gps_started, timers, running, gpsPc, gpsLocal, callPc,
                   trace>>

\* A call of get_navigation_status by any thread.  The dict returned holds
\* self.current_location itself (line 388), not a copy of it: lines 254-255
\* write into that object, line 83 puts a new object in its place.
get_navigation_status_call ==
    /\ budget.calls > 0 /\ budget.reads > 0
    /\ budget' = [budget EXCEPT !.calls = @ - 1, !.reads = @ - 1]
    /\ status_returned' = <<get_navigation_status>>
    /\ status_shares_location' = (current_location # NoLocation)
    /\ UNCHANGED beside_navigator
    /\ UNCHANGED <<GPS_AVAILABLE, locations, routes, navigation_history,
                   is_navigating, current_route, current_instruction_index,
                   current_location, destination, last_gps_update, gps_running,
                   gps_started, timers, running, gpsPc, gpsLocal, callPc,
                   trace>>

Next ==
    \/ \E dest \in LocationIds : start_navigation_to_destination(dest)
    \/ \E raises \in (IF GPS_AVAILABLE THEN BOOLEAN ELSE {FALSE}) : start_attach(raises)
    \/ \E t \in timers : timer_fire(t)
    \/ \E t \in running : update_instruction(t)
    \/ \E lat \in ReportLatitudes \cup {NoFix} : on_location_update(lat)
    \/ check_navigation_progress_advance
    \/ stop_navigation
    \/ get_navigation_status_call

Spec == Init /\ [][Next]_vars

\* The navigator without a positioning source (plyer not importable): no
\* position report is ever delivered.  A started threading.Timer fires and
\* its callback runs to its end, and the caller's start runs on to its end.
InitSynthetic == Init /\ ~GPS_AVAILABLE

NextSynthetic ==
    \/ \E dest \in LocationIds : start_navigation_to_destination(dest)
    \/ start_attach(FALSE)
    \/ \E t \in timers : timer_fire(t)
    \/ \E t \in running : update_instruction(t)
    \/ stop_navigation

SpecSynthetic ==
    /\ InitSynthetic
    /\ [][NextSynthetic]_vars
    /\ WF_vars(start_attach(FALSE))
    /\ WF_vars(\E t \in timers : timer_fire(t))
    /\ WF_vars(\E t \in running : update_instruction(t))

\* The navigator whose positioning source fails to start: gps.start raises
\* at every start (line 172), so no position report is ever delivered.
\* Timers fire and callbacks run to their end, as above.
InitFallback == Init /\ GPS_AVAILABLE

NextFallback ==
    \/ \E dest \in LocationIds : start_navigation_to_destination(dest)
    \/ start_attach(TRUE)
    \/ \E t \in timers : timer_fire(t)
    \/ \E t \in running : update_instruction(t)
    \/ stop_navigation

SpecFallback ==
    /\ InitFallback
    /\ [][NextFallback]_vars
    /\ WF_vars(start_attach(TRUE))
    /\ WF_vars(\E t \in timers : timer_fire(t))
    /\ WF_vars(\E t \in running : update_instruction(t))

\* ------------------------------------------------------------ the queries
\* The lookups of the navigator and of the store as functions of the store
\* and of the last known position: a store with any rows of a pool, a
\* position received while no navigation runs, and a caller that calls the
\* lookups.  No navigation is started.
LocationPool ==
    { [id |-> 1, name |-> 1, category |-> 2, latitude |-> 10],
      [id |-> 2, name |-> 1, category |-> 1, latitude |-> 30],
      [id |-> 3, name |-> 2, category |-> 2, latitude |-> 50],
      [id |-> 4, name |-> 2, category |-> 1, latitude |-> 30] }

RoutePool ==
    { [id |-> 1, start_location_id |-> 1, end_location_id |-> 2,
       waypoints |-> <<>>, distance |-> 150, is_accessible |-> 1],
      [id |-> 2, start_location_id |-> 1, end_location_id |-> 2,
       waypoints |-> <<>>, distance |-> 40, is_accessible |-> 0],
      [id |-> 3, start_location_id |-> 1, end_location_id |-> 2,
       waypoints |-> <<>>, distance |-> 100, is_accessible |-> 1],
      [id |-> 4, start_location_id |-> 1, end_location_id |-> 2,
       waypoints |-> <<>>, distance |-> 200, is_accessible |-> 0],
      [id |-> 5, start_location_id |-> 2, end_location_id |-> 1,
       waypoints |-> <<>>, distance |-> 70, is_accessible |-> 0],
      [id |-> 6, start_location_id |-> 1, end_location_id |-> 2,
       waypoints |-> <<>>, distance |-> 100, is_accessible |-> 1] }

QueryLatitudes == {12, 20, 40}
NearbyRadii == {0, 10, 18, 100}
RoutePairs == {<<1, 2>>, <<2, 1>>, <<1, 3>>}

\* A call of a lookup and the value it returned.
Returned(op, a, b, value) == [op |-> op, a |-> a, b |-> b, value |-> value]

\* The navigator as constructed (navigator.py:49-70), its position apart.
SessionIdle ==
    /\ navigation_history = <<>>
    /\ is_navigating = FALSE
    /\ current_route = None
    /\ current_instruction_index = 0
    /\ destination = None
    /\ last_gps_update = 0
    /\ gps_running = FALSE
    /\ gps_started = FALSE
    /\ timers = {}
    /\ running = {}
    /\ gpsPc = "idle"
    /\ gpsLocal = None
    /\ callPc = "idle"
    /\ status_returned = <<>>
    /\ status_shares_location = FALSE

InitQueries ==
    /\ GPS_AVAILABLE = TRUE
    /\ locations \in SUBSET LocationPool
    /\ routes \in SUBSET RoutePool
    /\ current_location \in
           {NoLocation} \cup { [latitude |-> lat, accuracy |-> 0] :
                                  lat \in QueryLatitudes }
    /\ SessionIdle
    /\ trace = <<>>
    /\ budget = [calls |-> 0, starts |-> 0, stops |-> 0, reads |-> 0]
    /\ returned = NoCall
    /\ user_settings = {}
    /\ audio_queue = <<>>
    /\ is_speaking = FALSE
    /\ camera = FALSE
    /\ OcrIdle

\* A call of CampusNavigator._find_nearest_location(lat, lng).
find_nearest_location_call(lat) ==
    /\ returned' = Returned("find_nearest_location", lat, 0,
                            find_nearest_location(lat))
    /\ UNCHANGED ocr_fields
    /\ UNCHANGED <<navigator_fields, locations, routes, trace, budget,
                   user_settings, audio_queue, is_speaking>>

\* A call of CampusNavigator.get_nearby_locations(radius).
get_nearby_locations_call(radius) ==
    /\ returned' = Returned("get_nearby_locations", radius, 0,
                            get_nearby_locations(radius))
    /\ UNCHANGED ocr_fields
    /\ UNCHANGED <<navigator_fields, locations, routes, trace, budget,
                   user_settings, audio_queue, is_speaking>>

\* A call of DatabaseManager.get_route(start_location_id, end_location_id).
get_route_call(start_location_id, end_location_id) ==
    /\ returned' = Returned("get_route", start_location_id, end_location_id,
                            get_route(start_location_id, end_location_id))
    /\ UNCHANGED ocr_fields
    /\ UNCHANGED <<navigator_fields, locations, routes, trace, budget,
                   user_settings, audio_queue, is_speaking>>

NextQueries ==
    \/ \E lat \in QueryLatitudes : find_nearest_location_call(lat)
    \/ \E radius \in NearbyRadii : get_nearby_locations_call(radius)
    \/ \E pair \in RoutePairs : get_route_call(pair[1], pair[2])

SpecQueries == InitQueries /\ [][NextQueries]_vars

\* ------------------------------------------------------------- the speech
\* AccessibilityManager's speech queue: callers put texts with speak(), the
\* speech worker thread takes them and speaks them one at a time.  A text is
\* identified by a number, NoText is the empty text.  The trace records the
\* calls of speak (call_speak, a: the text, b: the priority) and the texts
\* the worker speaks (spoken, a: the text, b: its priority).
NoText == 0
SpeechTexts == {NoText, 1, 2}
SpeechPriorities == {0, 10}

InitSpeech ==
    /\ GPS_AVAILABLE = FALSE
    /\ locations = SampleLocations
    /\ routes = SampleRoutes
    /\ current_location = NoLocation
    /\ SessionIdle
    /\ trace = <<>>
    /\ budget = [calls |-> MaxCalls, starts |-> 0, stops |-> 0, reads |-> 0]
    /\ returned = NoCall
    /\ user_settings = {}
    /\ audio_queue = <<>>
    /\ is_speaking = FALSE
    /\ camera = FALSE
    /\ OcrIdle

\* AccessibilityManager.speak(text, priority, interrupt).
speak(text, priority, interrupt) ==
    /\ budget.calls > 0
    /\ budget' = [budget EXCEPT !.calls = @ - 1]
    /\ trace' = Append(trace, Ev("call_speak", text, priority))
    /\ audio_queue' =
           IF text = NoText THEN audio_queue
           ELSE Append(IF interrupt /\ is_speaking THEN <<>> ELSE audio_queue,
                       [text |-> text, priority |-> priority])
    /\ UNCHANGED ocr_fields
    /\ UNCHANGED <<navigator_fields, locations, routes, returned,
                   user_settings, is_speaking>>

\* AccessibilityManager.speak_immediately(text): speak(text, priority=10,
\* interrupt=True), recorded as call_speak_immediately (a: the text).
immediate_priority == 10

speak_immediately(text) ==
    /\ budget.calls > 0
    /\ budget' = [budget EXCEPT !.calls = @ - 1]
    /\ trace' = Append(trace, Ev("call_speak_immediately", text,
                                 immediate_priority))
    /\ audio_queue' =
           IF text = NoText THEN audio_queue
           ELSE Append(IF is_speaking THEN <<>> ELSE audio_queue,
                       [text |-> text, priority |-> immediate_priority])
    /\ UNCHANGED ocr_fields
    /\ UNCHANGED <<navigator_fields, locations, routes, returned,
                   user_settings, is_speaking>>

\* AccessibilityManager._speech_worker, lines 123-127: the worker takes the
\* next item of the queue and starts to speak it.
speech_worker_get ==
    /\ ~is_speaking
    /\ audio_queue # <<>>
    /\ audio_queue' = Tail(audio_queue)
    /\ is_speaking' = TRUE
    /\ trace' = Append(trace, Ev("spoken", Head(audio_queue).text,
                                 Head(audio_queue).priority))
    /\ UNCHANGED ocr_fields
    /\ UNCHANGED <<navigator_fields, locations, routes, returned,
                   user_settings, budget>>

\* AccessibilityManager._speech_worker, lines 128-130: the text was spoken.
speech_worker_done ==
    /\ is_speaking
    /\ is_speaking' = FALSE
    /\ UNCHANGED ocr_fields
    /\ UNCHANGED <<navigator_fields, locations, routes, returned,
                   user_settings, budget, trace, audio_queue>>

NextSpeech ==
    \/ \E text \in SpeechTexts, priority \in SpeechPriorities,
          interrupt \in BOOLEAN : speak(text, priority, interrupt)
    \/ \E text \in SpeechTexts : speak_immediately(text)
    \/ speech_worker_get
    \/ speech_worker_done

SpecSpeech == InitSpeech /\ [][NextSpeech]_vars

\* -------------------------------------------------------------- the store
\* DatabaseManager on a new database: callers save and read user settings,
\* add locations and initialize the sample data.  The trace records the
\* calls that write (call_save, a: the key, b: the value; call_add_location,
\* a: the name, b: the latitude; call_initialize).

\* The rows of initialize_sample_data (database.py:200-206), in the order
\* they are added.  Names and categories are numbered in the order of their
\* texts; a latitude is its distance from 39.9000 in units of 0.0001 degree.
InitialLocations ==
    << [name |-> 1, category |-> 4, latitude |-> 42],
       [name |-> 3, category |-> 2, latitude |-> 52],
       [name |-> 5, category |-> 5, latitude |-> 32],
       [name |-> 4, category |-> 3, latitude |-> 62],
       [name |-> 2, category |-> 1, latitude |-> 22] >>

\* The route of initialize_sample_data (database.py:212-218) under an id.
InitialRoute(id) ==
    [id |-> id, start_location_id |-> 1, end_location_id |-> 2,
     waypoints |-> <<Waypoint(42, 1), Waypoint(47, 2), Waypoint(52, 3)>>,
     distance |-> 150, is_accessible |-> 1]

\* Locations a caller adds by itself.
NewLocations ==
    { [name |-> 6, category |-> 6, latitude |-> 10],
      [name |-> 7, category |-> 1, latitude |-> 70] }

SettingKeys == {1, 2}
SettingValues == {1, 2}
SettingDefaults == {None, 3}

\* INTEGER PRIMARY KEY AUTOINCREMENT of a table no row is deleted from.
NextId(table) ==
    IF table = {} THEN 1
    ELSE 1 + (CHOOSE n \in { r.id : r \in table } :
                  \A r \in table : r.id <= n)

\* The table locations after add_location for each row of a sequence.
RECURSIVE AddLocations(_, _)
AddLocations(table, rows) ==
    IF rows = <<>> THEN table
    ELSE AddLocations(table \cup { [id |-> NextId(table),
                                    name |-> Head(rows).name,
                                    category |-> Head(rows).category,
                                    latitude |-> Head(rows).latitude] },
                      Tail(rows))

InitDatabase ==
    /\ GPS_AVAILABLE = FALSE
    /\ locations = {}
    /\ routes = {}
    /\ current_location = NoLocation
    /\ SessionIdle
    /\ trace = <<>>
    /\ budget = [calls |-> MaxCalls, starts |-> 0, stops |-> 0, reads |-> 0]
    /\ returned = NoCall
    /\ user_settings = {}
    /\ audio_queue = <<>>
    /\ is_speaking = FALSE
    /\ camera = FALSE
    /\ OcrIdle

\* Mutant of save_user_setting: INSERT OR IGNORE, the row of a key that is
\* already saved is kept.
save_user_setting_ignoring(key, value) ==
    /\ budget.calls > 0
    /\ budget' = [budget EXCEPT !.calls = @ - 1]
    /\ trace' = Append(trace, Ev("call_save", key, value))
    /\ user_settings' =
           IF \E row \in user_settings : row.key = key
           THEN user_settings
           ELSE user_settings \cup {[key |-> key, value |-> value]}
    /\ UNCHANGED ocr_fields
    /\ UNCHANGED <<navigator_fields, locations, routes, returned,
                   audio_queue, is_speaking>>

\* DatabaseManager.save_user_setting: INSERT OR REPLACE on the primary key.
save_user_setting(key, value) ==
    /\ budget.calls > 0
    /\ budget' = [budget EXCEPT !.calls = @ - 1]
    /\ trace' = Append(trace, Ev("call_save", key, value))
    /\ user_settings' =
           { row \in user_settings : row.key # key }
               \cup {[key |-> key, value |-> value]}
    /\ UNCHANGED ocr_fields
    /\ UNCHANGED <<navigator_fields, locations, routes, returned,
                   audio_queue, is_speaking>>

\* DatabaseManager.get_user_setting(key, default_value).
get_user_setting(key, default_value) ==
    IF \E row \in user_settings : row.key = key
    THEN (CHOOSE row \in user_settings : row.key = key).value
    ELSE default_value

\* A call of get_user_setting.
get_user_setting_call(key, default_value) ==
    /\ returned' = Returned("get_user_setting", key, default_value,
                            get_user_setting(key, default_value))
    /\ UNCHANGED ocr_fields
    /\ UNCHANGED <<navigator_fields, locations, routes, trace, budget,
                   user_settings, audio_queue, is_speaking>>

\* DatabaseManager.add_location.
add_location(new) ==
    /\ budget.calls > 0
    /\ budget' = [budget EXCEPT !.calls = @ - 1]
    /\ trace' = Append(trace, Ev("call_add_location", new.name, new.latitude))
    /\ locations' = AddLocations(locations, <<new>>)
    /\ UNCHANGED ocr_fields
    /\ UNCHANGED <<navigator_fields, routes, returned, user_settings,
                   audio_queue, is_speaking>>

\* Mutant of initialize_sample_data: the rows are added whatever the store
\* holds.
initialize_sample_data_unguarded ==
    /\ budget.calls > 0
    /\ budget' = [budget EXCEPT !.calls = @ - 1]
    /\ trace' = Append(trace, Ev("call_initialize", 0, 0))
    /\ locations' = AddLocations(locations, InitialLocations)
    /\ routes' = routes \cup
                     {InitialRoute(NextId(routes))}
    /\ UNCHANGED ocr_fields
    /\ UNCHANGED <<navigator_fields, returned, user_settings, audio_queue,
                   is_speaking>>

\* DatabaseManager.initialize_sample_data: the rows are added when the
\* table locations is empty.
initialize_sample_data ==
    /\ budget.calls > 0
    /\ budget' = [budget EXCEPT !.calls = @ - 1]
    /\ trace' = Append(trace, Ev("call_initialize", 0, 0))
    /\ IF Cardinality(locations) = 0
       THEN /\ locations' = AddLocations(locations, InitialLocations)
            /\ routes' = routes \cup
                             {InitialRoute(NextId(routes))}
       ELSE UNCHANGED <<locations, routes>>
    /\ UNCHANGED ocr_fields
    /\ UNCHANGED <<navigator_fields, returned, user_settings, audio_queue,
                   is_speaking>>

NextDatabase ==
    \/ \E key \in SettingKeys, value \in SettingValues :
           save_user_setting(key, value)
    \/ \E key \in SettingKeys, default_value \in SettingDefaults :
           get_user_setting_call(key, default_value)
    \/ \E new \in NewLocations : add_location(new)
    \/ initialize_sample_data

SpecDatabase == InitDatabase /\ [][NextDatabase]_vars

\* -------------------------------------------------------- the text reader
\* OCRReader with its libraries installed: a caller starts and stops the
\* recognition, each start creates a worker thread that runs _ocr_worker.
\* A worker is at "test", about to evaluate the loop condition of line 158,
\* at "capture", about to read a frame (line 161), or at "ocr", holding a
\* frame (lines 166-174).  The trace records the calls (call_start_ocr,
\* call_stop_ocr) and what they announce.
InitOcr ==
    /\ GPS_AVAILABLE = FALSE
    /\ locations = SampleLocations
    /\ routes = SampleRoutes
    /\ current_location = NoLocation
    /\ SessionIdle
    /\ trace = <<>>
    /\ budget = [calls |-> MaxCalls, starts |-> 0, stops |-> 0, reads |-> 0]
    /\ returned = NoCall
    /\ user_settings = {}
    /\ audio_queue = <<>>
    /\ is_speaking = FALSE
    /\ camera \in BOOLEAN
    /\ OcrIdle

\* The number of the next threading.Thread created.
NextThread == 1 + Cardinality({ i \in 1..Len(trace) : trace[i].k = "ocr_started" })

\* OCRReader.start_ocr, lines 126-145.
start_ocr ==
    /\ budget.calls > 0
    /\ budget' = [budget EXCEPT !.calls = @ - 1]
    /\ IF is_running
       THEN /\ trace' = trace \o <<Ev("call_start_ocr", 0, 0),
                                    Ev("ocr_already_running", 0, 0)>>
            /\ UNCHANGED <<is_running, ocr_thread, ocr_workers>>
       ELSE IF ~camera
       THEN /\ trace' = trace \o <<Ev("call_start_ocr", 0, 0),
                                    Ev("ocr_no_camera", 0, 0)>>
            /\ UNCHANGED <<is_running, ocr_thread, ocr_workers>>
       ELSE /\ is_running' = TRUE
            /\ trace' = trace \o <<Ev("call_start_ocr", 0, 0),
                                    Ev("ocr_started", 0, 0)>>
            /\ ocr_thread' = NextThread
            /\ ocr_workers' = ocr_workers \cup
                                  {[thread |-> NextThread, pc |-> "test"]}
    /\ UNCHANGED <<navigator_fields, locations, routes, returned,
                   user_settings, audio_queue, is_speaking, camera>>

\* OCRReader.stop_ocr, lines 147-154.  join(timeout=2.0) returns when the
\* thread of ocr_thread has ended, or after 2 seconds with the thread still
\* inside an iteration (timed_out).
stop_ocr(timed_out) ==
    /\ budget.calls > 0
    /\ budget' = [budget EXCEPT !.calls = @ - 1]
    /\ timed_out => \E w \in ocr_workers :
                        w.thread = ocr_thread /\ w.pc \in {"capture", "ocr"}
    /\ is_running' = FALSE
    /\ trace' = trace \o <<Ev("call_stop_ocr", 0, 0), Ev("ocr_stopped", 0, 0)>>
    /\ ocr_workers' = IF timed_out THEN ocr_workers
                      ELSE { w \in ocr_workers : w.thread # ocr_thread }
    /\ UNCHANGED <<navigator_fields, locations, routes, returned,
                   user_settings, audio_queue, is_speaking, camera,
                   ocr_thread>>

\* OCRReader.cleanup, lines 346-354: stop_ocr, then the camera is released.
cleanup(timed_out) ==
    /\ budget.calls > 0
    /\ budget' = [budget EXCEPT !.calls = @ - 1]
    /\ timed_out => \E w \in ocr_workers :
                        w.thread = ocr_thread /\ w.pc \in {"capture", "ocr"}
    /\ is_running' = FALSE
    /\ trace' = trace \o <<Ev("call_cleanup", 0, 0), Ev("ocr_stopped", 0, 0)>>
    /\ ocr_workers' = IF timed_out THEN ocr_workers
                      ELSE { w \in ocr_workers : w.thread # ocr_thread }
    /\ camera' = FALSE
    /\ UNCHANGED <<navigator_fields, locations, routes, returned,
                   user_settings, audio_queue, is_speaking, ocr_thread>>

\* OCRReader._ocr_worker, line 158: the loop condition.
ocr_worker_test(w) ==
    /\ w.pc = "test"
    /\ ocr_workers' = IF is_running
                      THEN (ocr_workers \ {w}) \cup {[w EXCEPT !.pc = "capture"]}
                      ELSE ocr_workers \ {w}
    /\ UNCHANGED <<navigator_fields, locations, routes, returned,
                   user_settings, audio_queue, is_speaking, camera,
                   is_running, ocr_thread, trace, budget>>

\* OCRReader._ocr_worker, lines 161-165: camera.read() gives a frame (ret)
\* or the worker sleeps and goes back to the loop condition, as it does when
\* the camera was released and the read raises (lines 177-179).
ocr_worker_capture(w, ret) ==
    /\ w.pc = "capture"
    /\ ocr_workers' = (ocr_workers \ {w}) \cup
                          {[w EXCEPT !.pc = IF ret /\ camera THEN "ocr"
                                            ELSE "test"]}
    /\ UNCHANGED <<navigator_fields, locations, routes, returned,
                   user_settings, audio_queue, is_speaking, camera,
                   is_running, ocr_thread, trace, budget>>

\* OCRReader._ocr_worker, lines 166-174: the frame is kept, recognised when
\* the capture interval has passed, and the worker sleeps.
ocr_worker_ocr(w) ==
    /\ w.pc = "ocr"
    /\ ocr_workers' = (ocr_workers \ {w}) \cup {[w EXCEPT !.pc = "test"]}
    /\ UNCHANGED <<navigator_fields, locations, routes, returned,
                   user_settings, audio_queue, is_speaking, camera,
                   is_running, ocr_thread, trace, budget>>

NextOcr ==
    \/ start_ocr
    \/ \E timed_out \in BOOLEAN : stop_ocr(timed_out)
    \/ \E timed_out \in BOOLEAN : cleanup(timed_out)
    \/ \E w \in ocr_workers : ocr_worker_test(w)
    \/ \E w \in ocr_workers, ret \in BOOLEAN : ocr_worker_capture(w, ret)
    \/ \E w \in ocr_workers : ocr_worker_ocr(w)

SpecOcr == InitOcr /\ [][NextOcr]_vars


\* ------------------------------------------------------- reading the trace
IsCall(e) == e.k \in {"call_start", "call_stop", "call_report"}

\* The calls made on the announcer, in order.
AnnouncedOf(tr) == SelectSeq(tr, LAMBDA e : ~IsCall(e))

Announced == AnnouncedOf(trace)

\* The places of the entries of one kind.
Places(kind) == { i \in 1..Len(trace) : trace[i].k = kind }

Count(kind) == Cardinality(Places(kind))

Max(S) == CHOOSE x \in S : \A y \in S : y <= x

\* The entries after place i.
After(i) == SubSeq(trace, i + 1, Len(trace))

\* The place of the c-th entry of a kind.
NthPlace(kind, c) ==
    CHOOSE i \in Places(kind) : Cardinality({ j \in Places(kind) : j <= i }) = c

\* The place of the last call of start, 0 when there was none.
LastStart == IF Places("call_start") = {} THEN 0 ELSE Max(Places("call_start"))

\* The entries a step appends to the trace.
Appended == SubSeq(trace', Len(trace) + 1, Len(trace'))

\* The step is a call of the kind: the first entry it appends says so.
CallStep(kind) == Len(trace') > Len(trace) /\ trace'[Len(trace) + 1].k = kind

\* No thread is inside a handler.
Quiescent == callPc = "idle" /\ gpsPc = "idle" /\ running = {}

Abs(x) == IF x >= 0 THEN x ELSE -x

\* ------------------------------------------------------------------ claims
\* C1.  Live driver, whole route.  After one successful start with the live
\* driver attached, and no stop, let the position reports received since be
\* k <= n reports of which the j-th lies within 5 m of waypoint j of the
\* route (n >= 1 waypoints).  Then exactly k instructions have been announced
\* since the start, the j-th carrying waypoint j's instruction right after
\* the j-th report; the session is Navigating with index k while k < n; and
\* with the n-th report it has announced the arrival, recorded one history
\* row and left Navigating.
C1_Start == Max(Places("call_start"))

C1_Reports == SelectSeq(After(C1_Start + 2), LAMBDA e : e.k = "call_report")

C1_LiveJourney ==
    /\ Count("call_start") = 1
    /\ Count("call_stop") = 0
    /\ Quiescent
    /\ trace[C1_Start].b # None
    /\ Len(trace) >= C1_Start + 2
    /\ SubSeq(trace, C1_Start + 1, C1_Start + 2) = AnnounceStart(trace[C1_Start].a)
    /\ Len(trace) > C1_Start + 2 => trace[C1_Start + 3].k = "call_report"
    /\ LET waypoints == WaypointsOf(trace[C1_Start].b)
       IN  /\ Len(waypoints) >= 1
           /\ Len(C1_Reports) <= Len(waypoints)
           /\ \A j \in 1..Len(C1_Reports) :
                  /\ C1_Reports[j].a # NoFix
                  /\ Abs(C1_Reports[j].a - waypoints[j].lat) <= 5

C1_LiveWholeRoute ==
    C1_LiveJourney =>
        LET waypoints == WaypointsOf(trace[C1_Start].b)
            n == Len(waypoints)
            k == Len(C1_Reports)
            since == After(C1_Start + 2)
        IN  /\ Len(since) = 2 * k + (IF k = n THEN 2 ELSE 0)
            /\ \A j \in 1..k :
                   /\ since[2 * j - 1] = C1_Reports[j]
                   /\ since[2 * j].k = "instruction"
                   /\ since[2 * j].a = waypoints[j].instruction
            /\ k = n => SubSeq(since, 2 * k + 1, 2 * k + 2)
                            = announce_arrival(trace[C1_Start].a)
            /\ is_navigating = (k < n)
            /\ current_instruction_index = k
            /\ Len(navigation_history) = (IF k = n THEN 1 ELSE 0)

\* Witness of C1: the three-waypoint route 1 has been travelled with three
\* position reports and the session has arrived.
C1_Witness ==
    /\ Count("call_start") = 1
    /\ C1_LiveJourney
    /\ trace[C1_Start].b = 1
    /\ Len(C1_Reports) = 3
    /\ ~is_navigating


\* C2.  Synthetic driver, whole route.  Without a positioning source, after
\* one successful start of a route of n >= 1 waypoints and with no stop and
\* no further start, the announcer has received the start announcement and
\* then the instructions of waypoints 0..m-1 in order (m >= 1 the number
\* played, each whatever its distance), followed at m = n by one arrival
\* announcement; while a timer is pending or running the session is
\* Navigating and the timer is for waypoint m; when none is left the route is
\* played (m = n), the session is not Navigating and one history row is
\* recorded.  And the session eventually leaves Navigating.
C2_Scenario ==
    /\ ~GPS_AVAILABLE
    /\ Count("call_start") = 1
    /\ Count("call_stop") = 0
    /\ callPc = "idle"
    /\ trace[C1_Start].b # None
    /\ Len(WaypointsOf(trace[C1_Start].b)) >= 1

C2_Played ==
    C2_Scenario =>
        LET waypoints == WaypointsOf(trace[C1_Start].b)
            n == Len(waypoints)
            m == Count("instruction")
            dest == trace[C1_Start].a
            since == After(C1_Start + 2)
        IN  /\ SubSeq(trace, C1_Start + 1, C1_Start + 2) = AnnounceStart(dest)
            /\ 1 <= m /\ m <= n
            /\ Len(since) = m + (IF m = n THEN 2 ELSE 0)
            /\ \A j \in 1..m : /\ since[j].k = "instruction"
                               /\ since[j].a = waypoints[j].instruction
            /\ m = n => SubSeq(since, m + 1, m + 2) = announce_arrival(dest)
            /\ timers \cup running # {} =>
                   /\ is_navigating
                   /\ m < n
                   /\ \A t \in timers \cup running : t.index = m
            /\ timers \cup running = {} =>
                   /\ m = n
                   /\ ~is_navigating
                   /\ Count("arrival") = 1
                   /\ Len(navigation_history) = 1

C2_SyntheticWholeRoute ==
    /\ []C2_Played
    /\ C2_Scenario ~> (~is_navigating \/ Count("call_start") > 1
                                      \/ Count("call_stop") > 0)

\* Witness of C2: the three-waypoint route 1 has been played to its end.
C2_Witness ==
    /\ Count("call_start") = 1
    /\ C2_Scenario
    /\ trace[C1_Start].b = 1
    /\ Count("instruction") = 3
    /\ timers \cup running = {}
    /\ ~is_navigating


\* C3.  No late ticks across sessions.  Once a session's stop has been
\* followed by a new successful start that has returned, no timer callback
\* of the stopped session's chain passes its guard: it announces nothing
\* and does not move the current position.
C3_StoppedAndRestarted(chain) ==
    /\ callPc = "idle"
    /\ \E q \in Places("call_stop"), s \in Places("call_start") :
           /\ NthPlace("call_start", chain) < q
           /\ q < s
           /\ trace[s].b # None

C3_NoLateTicks ==
    [][\A t \in running' \ running : ~C3_StoppedAndRestarted(t.chain)]_vars

\* C4.  A new start stops the previous session.  After a second (or later)
\* successful start has returned, with no stop called, every timer pending
\* or running belongs to the chain of that start, and at most one driver (one
\* timer chain or the live source) is attached.
C4_Drivers ==
    { t.chain : t \in timers \cup running } \cup (IF gps_running THEN {0} ELSE {})

C4_ImplicitStop ==
    ( /\ callPc = "idle"
      /\ Count("call_start") >= 2
      /\ Count("call_stop") = 0
      /\ trace[LastStart].b # None )
    => /\ \A t \in timers \cup running : t.chain = StartsSoFar
       /\ Cardinality(C4_Drivers) <= 1

\* C5.  After stop_navigation has returned and while no start is called, a
\* tick that begins (a position report, or a timer that fires) announces
\* nothing, records no history and starts no callback that would.
C5_Stopped ==
    /\ Places("call_stop") # {}
    /\ Max(Places("call_stop")) > LastStart

C5_TickBegins ==
    \/ CallStep("call_report")
    \/ \E t \in timers : timers' = timers \ {t}

C5_NoTickAfterStop ==
    [][(C5_Stopped /\ C5_TickBegins) =>
          /\ AnnouncedOf(trace') = Announced
          /\ navigation_history' = navigation_history
          /\ running' = running
          /\ gpsPc' = gpsPc
          /\ ~is_navigating']_vars

\* Witness of C5: a session was stopped (the stop was announced) and a
\* position report has been processed after the stop, while a timer of the
\* stopped session is still pending.
C5_Witness ==
    /\ C5_Stopped
    /\ Count("stopped") = 1
    /\ \E p \in Places("call_report") : p > Max(Places("call_stop"))

\* C6.  stop_navigation while not Navigating announces nothing and changes
\* no field; while Navigating it ends navigation and announces "stopped"
\* exactly once; so after a start at most one "stopped" is ever announced,
\* however many stops are called.
C6_StopStep ==
    CallStep("call_stop") =>
        IF is_navigating
        THEN /\ ~is_navigating'
             /\ Appended = <<Ev("call_stop", 0, 0)>> \o AnnounceStopped
        ELSE /\ Appended = <<Ev("call_stop", 0, 0)>>
             /\ UNCHANGED <<is_navigating, current_route,
                            current_instruction_index, current_location,
                            destination, last_gps_update, gps_running,
                            navigation_history, timers, running>>

C6_StopIdempotent ==
    /\ [][C6_StopStep]_vars
    /\ [](Cardinality({ i \in Places("stopped") : i > LastStart }) <= 1)

\* Witness of C6: a session was stopped and stop was called again.
C6_Witness ==
    /\ Count("call_stop") = 2
    /\ Count("stopped") = 1
    /\ LastStart > 0 /\ trace[LastStart].b # None
    /\ trace[Len(trace)].k = "call_stop"
    /\ \A q \in Places("call_stop") : q > LastStart

\* ---------------------------------------------------------------------- C7
\* The step is a call of start that fails: the store has no location to
\* resolve the start from, or no route from the resolved start to the
\* destination asked for.
C7_FailedStart ==
    /\ CallStep("call_start")
    /\ LET latitude == IF current_location = NoLocation
                       THEN simulated_latitude
                       ELSE current_location.latitude
           start_loc == find_nearest_location(latitude)
           dest == trace'[Len(trace) + 1].a
       IN  \/ locations = {}
           \/ start_loc # None /\ get_route(start_loc, dest) = None

\* The announcer calls of one kind among the entries a step appends.
C7_Said(kind) == Len(SelectSeq(Appended, LAMBDA e : e.k = kind))

\* C7: a start that fails, for want of a location or of a route, makes
\* exactly one error announcement, announces no start and plays no start
\* cue, announces no instruction, attaches no driver (no timer is started,
\* no callback runs, the positioning source is not started, the caller is
\* back from the call) and does not make the session Navigating.
C7_FailedStartOnlyAnnounces ==
    [][C7_FailedStart =>
          /\ C7_Said("error") = 1
          /\ C7_Said("cue_error") = 1
          /\ C7_Said("started") = 0
          /\ C7_Said("cue_start") = 0
          /\ C7_Said("instruction") = 0
          /\ Len(Appended) = 3
          /\ callPc' = "idle"
          /\ timers' = timers /\ running' = running
          /\ gps_running' = gps_running /\ gps_started' = gps_started
          /\ is_navigating' = is_navigating]_vars

\* A start failed for want of a route while the session was idle, a later
\* start succeeded, and a start failed again while the session was Navigating.
C7_Witness ==
    /\ Len(trace) >= 6
    /\ trace[1].k = "call_start" /\ trace[3].k = "error"
    /\ trace[3].a = NoRouteFound
    /\ trace[Len(trace) - 2].k = "call_start"
    /\ trace[Len(trace)].k = "error"
    /\ Count("error") = 2
    /\ is_navigating

\* ---------------------------------------------------------------------- C8
\* C8: a failed start leaves the session unchanged: get_navigation_status()
\* returns after the failed start what it returned before it, whether the
\* session was idle or Navigating.
C8_FailedStartLeavesStatus ==
    [][C7_FailedStart => get_navigation_status' = get_navigation_status]_vars

\* ---------------------------------------------------------------------- C9
\* The entries of the trace from a call of start at place i up to the next
\* call of start.
C9_SessionEnd(i) ==
    IF \E j \in Places("call_start") : j > i
    THEN (CHOOSE j \in Places("call_start") :
              j > i /\ \A k \in Places("call_start") : k > i => j <= k) - 1
    ELSE Len(trace)

C9_Session(i, kind) ==
    { j \in Places(kind) : i < j /\ j <= C9_SessionEnd(i) }

\* The step is a call of start that succeeds.
C9_SuccessfulStart ==
    CallStep("call_start") /\ trace'[Len(trace) + 1].b # None

\* C9: a successful start makes the session Navigating at waypoint 0 of the
\* route the store returned, announces the start once and plays the start
\* cue once, and both come before any instruction of that session.
C9_StartedBeforeInstructions ==
    /\ [][C9_SuccessfulStart =>
            /\ is_navigating'
            /\ current_instruction_index' = 0
            /\ current_route' = trace'[Len(trace) + 1].b]_vars
    /\ [](\A i \in Places("call_start") :
            trace[i].b # None =>
               /\ Cardinality(C9_Session(i, "started")) <= 1
               /\ Cardinality(C9_Session(i, "cue_start")) <= 1
               /\ (callPc = "idle" \/ i < LastStart) =>
                     /\ Cardinality(C9_Session(i, "started")) = 1
                     /\ Cardinality(C9_Session(i, "cue_start")) = 1
               /\ \A j \in C9_Session(i, "instruction") :
                     /\ \E k \in C9_Session(i, "started") : k < j
                     /\ \E k \in C9_Session(i, "cue_start") : k < j)

\* --------------------------------------------------------------------- C10
\* C10: each arrival records one history entry and makes one arrival
\* announcement, and a session arrives at most once: between two arrivals
\* there is a call of start, and after an arrival the session is not
\* Navigating until the next start.
C10_ArrivesOnce ==
    /\ Len(navigation_history) = Count("arrival")
    /\ \A i \in Places("call_start") :
          /\ Cardinality(C9_Session(i, "arrival")) <= 1
          /\ (i = LastStart /\ C9_Session(i, "arrival") # {}) => ~is_navigating

\* --------------------------------------------------------------------- C11
\* The step is a position report with a fix, processed while Navigating
\* with the index inside the active route.
C11_LiveTick ==
    /\ CallStep("call_report")
    /\ trace'[Len(trace) + 1].a # NoFix
    /\ is_navigating /\ current_route # None
    /\ current_instruction_index < Len(WaypointsOf(current_route))

\* The distance from the reported position to waypoint i.
C11_Distance ==
    calculate_distance(trace'[Len(trace) + 1].a,
        WaypointsOf(current_route)[current_instruction_index + 1].lat)

\* The positioning thread completes a tick that reached its waypoint.
C11_Advance == gpsPc = "advance" /\ gpsPc' = "idle"

C12_Returned ==
    { get_route(s, e) : s \in LocationIds, e \in LocationIds } \ {None}

\* C12: the session is Navigating only after a successful route lookup:
\* whenever is_navigating is true, current_route is a route the store
\* returns and destination is set; and is_navigating becomes true in no
\* step other than a successful start.
C12_NavigatingOnlyAfterLookup ==
    /\ [](is_navigating =>
            /\ current_route # None
            /\ current_route \in C12_Returned
            /\ destination # None)
    /\ [][(~is_navigating /\ is_navigating') =>
            /\ C9_SuccessfulStart
            /\ current_route' = get_route(
                   find_nearest_location(current_location'.latitude),
                   trace'[Len(trace) + 1].a)]_vars

\* A session that became Navigating again, by a second successful start,
\* after a first one had arrived.
C12_Witness ==
    /\ is_navigating
    /\ Count("arrival") > 0
    /\ LastStart > Max(Places("arrival") \cup {0})
    /\ trace[LastStart].b # None

\* --------------------------------------------------------------------- C13
\* The operations that are in the middle of their execution: a start
\* between its commit (line 164) and its announcement (line 166), a live
\* tick between its announcement (line 289) and its advance (line 293), and
\* the timer ticks between their guard (line 239) and their body.
C13_InProgress ==
    (IF callPc # "idle" THEN 1 ELSE 0) + (IF gpsPc # "idle" THEN 1 ELSE 0)
        + Cardinality(running)

\* C13: the operations that change the session state are serialized: in no
\* reachable state are two of them (a live tick, a timer tick, a start, a
\* stop) in the middle of their execution, and start and stop are called
\* only when no tick is.
C13_Serialized ==
    /\ [](C13_InProgress <= 1)
    /\ [][(CallStep("call_start") \/ CallStep("call_stop")) =>
            C13_InProgress = 0]_vars

\* --------------------------------------------------------------------- C14
\* The step is a call of get_navigation_status.
C14_Read == budget'.reads < budget.reads

\* C14: get_navigation_status returns a consistent snapshot: it is not taken
\* inside a live tick that has written the reported position (line 83) and
\* has yet to advance the index (line 293) or clear is_navigating (line
\* 301), which would pair the tick's position with the index and the flag
\* from before the tick; and the dict returned is changed by no later step.
C14_ConsistentSnapshot ==
    /\ [][C14_Read => gpsPc = "idle"]_vars
    /\ [][(status_returned # <<>> /\ ~C14_Read) =>
            status_returned' = status_returned]_vars

\* --------------------------------------------------------------------- C15
\* C15: get_navigation_status is a pure read: a call changes no field of
\* the session (is_navigating, current_route, current_instruction_index,
\* current_location, destination), makes no announcement, records no
\* history, starts or stops no driver, and returns the fields as they are.
C15_PureRead ==
    [][C14_Read =>
          /\ is_navigating' = is_navigating
          /\ current_route' = current_route
          /\ current_instruction_index' = current_instruction_index
          /\ current_location' = current_location
          /\ destination' = destination
          /\ trace' = trace
          /\ navigation_history' = navigation_history
          /\ timers' = timers /\ running' = running
          /\ gps_running' = gps_running
          /\ status_returned'[1].is_navigating = is_navigating
          /\ status_returned'[1].destination = destination
          /\ status_returned'[1].current_instruction_index
                 = current_instruction_index
          /\ status_returned'[1].current_location = current_location]_vars

\* The status was read in the middle of a live session, after the first
\* waypoint of a route of three was reached.
C15_Witness ==
    /\ status_returned # <<>>
    /\ status_returned[1].is_navigating
    /\ status_returned[1].total_instructions = 3
    /\ status_returned[1].current_instruction_index = 1
    /\ status_returned[1].current_location.latitude = 15

\* --------------------------------------------------------------------- C16
\* C16: the synthetic driver advances the index with every waypoint it
\* plays: in a session without positioning source, after k waypoints were
\* played get_navigation_status reports current_instruction_index = k, and
\* at arrival the index equals total_instructions.
C16_SyntheticIndexAdvances ==
    C2_Scenario =>
        /\ get_navigation_status.current_instruction_index = Count("instruction")
        /\ Count("arrival") > 0 =>
               get_navigation_status.current_instruction_index
                   = get_navigation_status.total_instructions

\* --------------------------------------------------------------------- C17
\* The step plays waypoint 0 in the caller's thread (line 267).
C17_FirstPlayed ==
    callPc = "attach" /\ callPc' = "idle" /\ C7_Said("instruction") = 1

\* C17: after the synthetic driver has played waypoint i, in the caller's
\* thread or in a timer's, the current position is waypoint i's coordinate;
\* when the playback of a route is complete, it is the last waypoint's.
C17_SyntheticPosition ==
    /\ [][/\ C17_FirstPlayed =>
               current_location'.latitude = WaypointsOf(current_route)[1].lat
          /\ \A t \in running : running' = running \ {t} =>
               current_location'.latitude
                   = WaypointsOf(t.route)[t.index + 1].lat]_vars
    /\ []((C2_Scenario /\ timers \cup running = {}) =>
            LET waypoints == WaypointsOf(trace[C1_Start].b)
            IN  current_location.latitude = waypoints[Len(waypoints)].lat)

\* The route of two waypoints from location 3 to location 1 was played to
\* its end by a second start, made where the first playback had ended.
C17_Witness ==
    /\ Count("call_start") = 2
    /\ trace[LastStart].b = 4
    /\ Count("arrival") = 2
    /\ current_location.latitude = 10
    /\ running = {} /\ timers = {}

\* --------------------------------------------------------------------- C18
\* C18: a position report received while the session is not Navigating is
\* not forwarded as a tick: it announces no instruction and no arrival,
\* records no history, leaves no tick to be completed, and leaves
\* is_navigating, current_route, current_instruction_index and destination
\* as they were.
C18_ReportOutsideSession ==
    [][(CallStep("call_report") /\ ~is_navigating) =>
          /\ AnnouncedOf(Appended) = <<>>
          /\ navigation_history' = navigation_history
          /\ gpsPc' = "idle"
          /\ is_navigating' = is_navigating
          /\ current_route' = current_route
          /\ current_instruction_index' = current_instruction_index
          /\ destination' = destination]_vars

\* A live session was stopped before its first waypoint was reached, and a
\* report at 5 m from that waypoint has arrived since.
C18_Witness ==
    /\ ~is_navigating
    /\ current_route = 1 /\ current_instruction_index = 0
    /\ Count("call_stop") = 1 /\ Count("stopped") = 1
    /\ trace[Len(trace)].k = "call_report"
    /\ trace[Len(trace)].a = 15
    /\ current_location.latitude = 15

\* --------------------------------------------------------------------- C19
\* One start, whose lookup succeeded, on a navigator with a positioning
\* source; the start has returned and stop was not called.
C19_Scenario ==
    /\ GPS_AVAILABLE
    /\ Count("call_start") = 1
    /\ Count("call_stop") = 0
    /\ callPc = "idle"
    /\ trace[LastStart].b # None
    /\ Len(WaypointsOf(trace[LastStart].b)) >= 1

\* The start attaches its driver while gps.start raises.
C19_AttachFails ==
    /\ callPc = "attach" /\ callPc' = "idle"
    /\ is_navigating
    /\ Len(WaypointsOf(current_route)) >= 1

\* C19: when gps.start raises, the start does not abort: it is announced,
\* the synthetic driver is started once (waypoint 0 is played once and at
\* most one timer is started), the session stays Navigating until it
\* arrives, and the route is played in order to its arrival, with one
\* history entry, as without a positioning source.
C19_FallbackPlaysRoute ==
    /\ [][C19_AttachFails =>
            /\ C7_Said("started") = 1 /\ C7_Said("cue_start") = 1
            /\ C7_Said("instruction") = 1
            /\ C7_Said("error") = 0
            /\ Cardinality(timers' \ timers) + C7_Said("arrival") = 1
            /\ is_navigating' <=> (C7_Said("arrival") = 0)
            /\ ~gps_running' /\ ~gps_started']_vars
    /\ [](C19_Scenario =>
            LET waypoints == WaypointsOf(trace[LastStart].b)
                played == SelectSeq(trace, LAMBDA e : e.k = "instruction")
            IN  /\ Len(played) <= Len(waypoints)
                /\ \A j \in 1..Len(played) :
                       played[j].a = waypoints[j].instruction
                /\ is_navigating <=> (timers \cup running # {})
                /\ Cardinality(timers \cup running) <= 1
                /\ ~is_navigating =>
                       /\ Len(played) = Len(waypoints)
                       /\ Count("arrival") = 1
                       /\ trace[Len(trace)].k = "arrival"
                       /\ Len(navigation_history) = 1)
    /\ C19_Scenario ~> (~is_navigating \/ Count("call_start") > 1
                                       \/ Count("call_stop") > 0)

\* The three-waypoint route was played to its arrival by the fallback.
C19_Witness ==
    /\ C19_Scenario
    /\ ~gps_started
    /\ trace[LastStart].b = 1
    /\ Count("instruction") = 3
    /\ Count("arrival") = 1
    /\ ~is_navigating

\* --------------------------------------------------------------------- C20
\* The position reports with a fix received so far.
C20_Fixes == { i \in Places("call_report") : trace[i].a # NoFix }

\* The position the claim has a start resolve its start location from: the
\* most recently reported one, the simulated one when none was reported.
C20_Latitude ==
    IF C20_Fixes = {} THEN simulated_latitude ELSE trace[Max(C20_Fixes)].a

\* C20: a start made when no position was ever reported resolves its start
\* location from the fixed simulated position and does not fail for want of
\* a position; a start made after a position was reported resolves it from
\* the most recently reported position.
C20_StartPosition ==
    [][CallStep("call_start") =>
          LET call == trace'[Len(trace) + 1]
              start_loc == find_nearest_location(C20_Latitude)
          IN  /\ call.b = IF start_loc = None
                         THEN None
                         ELSE get_route(start_loc, call.a)
              /\ locations # {} =>
                    \A e \in { Appended[i] : i \in 1..Len(Appended) } :
                        e.k = "error" => e.a # NoStartLocation]_vars

\* --------------------------------------------------------------------- C29
\* One live session, not stopped, in which every position report so far was
\* more than 5 m and at most 20 m from the first waypoint of the route.
C29_Scenario ==
    /\ Count("call_start") = 1 /\ Count("call_stop") = 0
    /\ trace[LastStart].b # None
    /\ gps_started
    /\ Len(WaypointsOf(trace[LastStart].b)) >= 1
    /\ \A i \in Places("call_report") :
          /\ trace[i].a # NoFix
          /\ LET d == calculate_distance(trace[i].a,
                          WaypointsOf(trace[LastStart].b)[1].lat)
             IN  5 < d /\ d <= 20

\* C29: instruction announcements are not de-duplicated: k consecutive
\* reports more than 5 m and at most 20 m from the current waypoint make k
\* announcements of that waypoint's instruction and leave the index as it is.
C29_NoDeduplication ==
    C29_Scenario =>
        /\ Count("instruction") = Count("call_report")
        /\ \A j \in Places("instruction") :
              /\ trace[j].a = WaypointsOf(trace[LastStart].b)[1].instruction
              /\ trace[j - 1].k = "call_report"
        /\ current_instruction_index = 0
        /\ is_navigating
        /\ gpsPc = "idle"

\* Three such reports in a row.
C29_Witness ==
    /\ C29_Scenario
    /\ Count("call_report") = 3
    /\ Count("instruction") = 3

\* --------------------------------------------------------------------- C30
\* The step is a position report with a fix, received while Navigating on
\* a route whose waypoints are exhausted.
C30_ExhaustedTick ==
    /\ CallStep("call_report")
    /\ trace'[Len(trace) + 1].a # NoFix
    /\ is_navigating /\ current_route # None
    /\ current_instruction_index >= Len(WaypointsOf(current_route))

\* C30: a tick processed when the index is at or past the end of the
\* active route's waypoints is a no-op: it announces no instruction and no
\* arrival, records no history, and changes neither the index nor
\* is_navigating.
C30_ExhaustedTickNoOp ==
    [][C30_ExhaustedTick =>
          /\ AnnouncedOf(Appended) = <<>>
          /\ navigation_history' = navigation_history
          /\ current_instruction_index' = current_instruction_index
          /\ is_navigating' = is_navigating
          /\ gpsPc' = "idle"]_vars

\* A live session on the route without waypoints has received a report.
C30_Witness ==
    /\ is_navigating
    /\ current_route = 6
    /\ current_instruction_index = 0
    /\ trace[Len(trace)].k = "call_report"
    /\ trace[Len(trace)].a # NoFix
    /\ Max(Places("call_report")) > LastStart

\* The place of a location in the order the store returns the locations in.
PlaceInStore(id) ==
    CHOOSE i \in 1..Len(get_locations_by_category) :
        get_locations_by_category[i].id = id

LatitudeOf(id) == (CHOOSE l \in locations : l.id = id).latitude

\* C21: _find_nearest_location returns None exactly when the store has no
\* locations; otherwise it returns a location at the minimal distance to the
\* point, the first of the store's order among those at that distance; with
\* one location in the store it returns that location.
C21_NearestIsFirstMinimal ==
    returned.op = "find_nearest_location" =>
        LET lat == returned.a
            d(l) == calculate_distance(lat, l.latitude)
        IN  /\ returned.value = None <=> locations = {}
            /\ locations # {} =>
                   \E l \in locations :
                       /\ l.id = returned.value
                       /\ \A m \in locations : d(l) <= d(m)
                       /\ \A m \in locations :
                              d(m) = d(l) =>
                                  PlaceInStore(l.id) <= PlaceInStore(m.id)
            /\ \A l \in locations :
                   locations = {l} => returned.value = l.id

\* Three locations at the same minimal distance: the first of the store's
\* order, which has not the smallest id, was returned.
C21_Witness ==
    /\ returned.op = "find_nearest_location"
    /\ locations = LocationPool
    /\ returned.a = 20
    /\ returned.value = 2

\* C22: get_nearby_locations(radius) returns exactly the locations at a
\* distance <= radius of the current position, each once, in ascending order
\* of that distance, those at the same distance in the store's order.
C22_NearbyExactAndSorted ==
    (returned.op = "get_nearby_locations" /\ current_location # NoLocation) =>
        LET nearby == returned.value
            d(id) == calculate_distance(current_location.latitude,
                                        LatitudeOf(id))
            within == { l.id : l \in { m \in locations :
                            calculate_distance(current_location.latitude,
                                               m.latitude) <= returned.a } }
        IN  /\ { nearby[i] : i \in 1..Len(nearby) } = within
            /\ Len(nearby) = Cardinality(within)
            /\ \A i, j \in 1..Len(nearby) :
                   i < j => \/ d(nearby[i]) < d(nearby[j])
                            \/ /\ d(nearby[i]) = d(nearby[j])
                               /\ PlaceInStore(nearby[i]) < PlaceInStore(nearby[j])

\* The nearest location comes last in the store's order of the three within
\* the radius, two of them exactly at the radius.
C22_Witness ==
    /\ returned.op = "get_nearby_locations"
    /\ locations = LocationPool
    /\ current_location.latitude = 12
    /\ returned.a = 18
    /\ returned.value = <<1, 2, 4>>

\* C24: get_route returns None exactly when the store has no route for the
\* pair; otherwise it returns a route of the pair that is accessible if any
\* route of the pair is, and of the smallest distance among the routes of the
\* pair that have its accessibility.
C24_AccessibleThenShortest ==
    returned.op = "get_route" =>
        LET rows == { r \in routes : /\ r.start_location_id = returned.a
                                     /\ r.end_location_id = returned.b }
        IN  /\ returned.value = None <=> rows = {}
            /\ rows # {} =>
                   \E r \in rows :
                       /\ r.id = returned.value
                       /\ (\E q \in rows : q.is_accessible = 1)
                              => r.is_accessible = 1
                       /\ \A q \in rows :
                              q.is_accessible = r.is_accessible
                                  => r.distance <= q.distance

\* Several routes for the pair: an accessible one of distance 100 was
\* returned although a route that is not accessible is shorter.
C24_Witness ==
    /\ returned.op = "get_route"
    /\ routes = RoutePool
    /\ returned.a = 1 /\ returned.b = 2
    /\ returned.value \in {3, 6}

\* C23: get_nearby_locations returns the empty list in every state where no
\* position report has been received and no navigation has been started
\* successfully.
C23_EmptyWithoutPosition ==
    (/\ \A i \in Places("call_report") : trace[i].a = NoFix
     /\ \A i \in Places("call_start") : trace[i].b = None)
        => \A radius \in NearbyRadii : get_nearby_locations(radius) = <<>>

\* C26: when the speech worker takes a text to speak, no text waiting in the
\* speech queue has a larger priority number than the text taken.
C26_LargerPriorityFirst ==
    [][(/\ Len(trace') = Len(trace) + 1
        /\ trace'[Len(trace')].k = "spoken")
           => \A i \in 1..Len(audio_queue) :
                  audio_queue[i].priority <= trace'[Len(trace')].b]_vars

\* C27: get_user_setting(k, default) returns the value of the last
\* save_user_setting(k, v) made before it, and the default when k was never
\* saved.
C27_Get ==
    /\ returned'.op = "get_user_setting"
    /\ returned' # returned
    /\ trace' = trace

C27_SettingRoundTrip ==
    [][C27_Get =>
          LET saves == { i \in Places("call_save") : trace[i].a = returned'.a }
          IN  returned'.value = IF saves = {} THEN returned'.b
                                ELSE trace[Max(saves)].b]_vars

\* A key was saved with value 1 and then with value 2, and read after that.
C27_Witness ==
    /\ returned.op = "get_user_setting"
    /\ returned.value = 2
    /\ LET saves == { i \in Places("call_save") : trace[i].a = returned.a }
       IN  /\ Cardinality(saves) = 2
           /\ \E i, j \in saves : i < j /\ trace[i].b = 1 /\ trace[j].b = 2

\* C28: after one or more calls of initialize_sample_data on a new store and
\* no other call the store holds exactly the 5 sample locations and the 1
\* sample route; a call on a store that holds a location adds nothing.
C28_OnlyInitialized ==
    /\ Count("call_initialize") >= 1
    /\ Count("call_initialize") = Len(trace)

C28_SampleStore ==
    /\ Cardinality(locations) = Len(InitialLocations)
    /\ { [name |-> l.name, category |-> l.category, latitude |-> l.latitude] :
             l \in locations }
           = { InitialLocations[i] : i \in 1..Len(InitialLocations) }
    /\ Cardinality(routes) = 1
    /\ \A r \in routes :
           /\ r.waypoints = InitialRoute(r.id).waypoints
           /\ r.distance = InitialRoute(r.id).distance
           /\ LatitudeOf(r.start_location_id) = InitialLocations[1].latitude
           /\ LatitudeOf(r.end_location_id) = InitialLocations[2].latitude

C28_InitializeIdempotent ==
    /\ [](C28_OnlyInitialized => C28_SampleStore)
    /\ [][(/\ Len(trace') = Len(trace) + 1
            /\ trace'[Len(trace')].k = "call_initialize"
            /\ locations # {})
               => (locations' = locations /\ routes' = routes)]_vars

\* initialize_sample_data was called three times on a new store.
C28_Witness ==
    /\ C28_OnlyInitialized
    /\ Count("call_initialize") = 3
    /\ Cardinality(locations) = 5

\* C31: a newly created navigator, on which nothing was called yet but reads
\* of its status, reports is_navigating false, destination None, index 0,
\* 0 instructions and no position, to every read, and has announced nothing.
C31_IdleStatus ==
    [is_navigating |-> FALSE,
     destination |-> None,
     current_instruction_index |-> 0,
     total_instructions |-> 0,
     current_location |-> NoLocation]

C31_CreatedIdle ==
    trace = <<>> =>
        /\ get_navigation_status = C31_IdleStatus
        /\ \A i \in 1..Len(status_returned) : status_returned[i] = C31_IdleStatus
        /\ Announced = <<>>

\* The status of a new navigator was read.
C31_Witness == trace = <<>> /\ status_returned # <<>>

\* C33: without a positioning source, with fair timers and no stop call, a
\* session that is Navigating eventually leaves Navigating.
C33_SyntheticSessionEnds ==
    (is_navigating /\ callPc = "idle")
        ~> (~is_navigating \/ Count("call_stop") > 0)

\* C34: current_instruction_index is at least 0 and at most the number of
\* waypoints of the active route, and 0 when there is no active route.
C34_IndexInRange ==
    /\ current_instruction_index >= 0
    /\ IF current_route = None
       THEN current_instruction_index = 0
       ELSE current_instruction_index <= Len(WaypointsOf(current_route))

\* C35: after the "navigation stopped" announcement of a session no arrival
\* is announced and no history row is added for that session, that is before
\* the next successful start.
C35_StopExcludesArrival ==
    /\ \A i \in Places("stopped"), j \in Places("arrival") :
           i < j => \E s \in Places("call_start") :
                        i < s /\ s < j /\ trace[s].b # None
    /\ Len(navigation_history) = Count("arrival")

\* C36: while Navigating the destination is the location the active route
\* ends at, and every arrival announced names the end of the route of the
\* last successful start before it.
C36_DestinationIsRouteEnd ==
    /\ (is_navigating /\ current_route # None)
           => destination = RouteById(current_route).end_location_id
    /\ \A j \in Places("arrival") :
           LET starts == { s \in Places("call_start") :
                               s < j /\ trace[s].b # None }
           IN  starts # {}
                   => trace[j].a = RouteById(trace[Max(starts)].b).end_location_id

\* C37: current_instruction_index decreases only by a start, and the steps
\* of one position report advance it by one at most.
C37_IndexMonotone ==
    [][/\ current_instruction_index' < current_instruction_index
              => CallStep("call_start")
       /\ CallStep("call_report")
              => current_instruction_index' = current_instruction_index
       /\ gpsPc = "advance"
              => current_instruction_index' <= current_instruction_index + 1]_vars

\* Route 1, the second waypoint current: the report at latitude 48 is within
\* 5 m of the second and of the third waypoint and the index went to 2, not
\* to 3.
C37_Witness ==
    /\ is_navigating /\ current_route = 1
    /\ gpsPc = "idle"
    /\ current_instruction_index = 2
    /\ Len(trace) >= 2
    /\ trace[Len(trace)].k = "instruction" /\ trace[Len(trace)].a = 12
    /\ trace[Len(trace) - 1].k = "call_report" /\ trace[Len(trace) - 1].a = 48

\* C38: a position report without the lat or the lon field changes neither
\* current_location, last_gps_update, current_instruction_index nor
\* is_navigating and announces nothing.
C38_ReportWithoutFix ==
    [][(CallStep("call_report") /\ trace'[Len(trace) + 1].a = NoFix)
          => /\ UNCHANGED <<current_location, last_gps_update,
                            current_instruction_index, is_navigating>>
             /\ Appended = <<Ev("call_report", NoFix, 0)>>
             /\ gpsPc' = gpsPc]_vars

\* A report without fix was received while Navigating, after a position was
\* known from a report.
C38_Witness ==
    /\ is_navigating
    /\ Len(trace) >= 1
    /\ trace[Len(trace)].k = "call_report" /\ trace[Len(trace)].a = NoFix
    /\ \E i \in Places("call_report") : trace[i].a # NoFix

\* C32: after speak_immediately(text) the text is the only one waiting in
\* the speech queue, whether the worker is speaking or not: every text put
\* earlier that the worker has not taken yet was removed.
C32_ImmediateIsNext ==
    [][(/\ Len(trace') = Len(trace) + 1
        /\ trace'[Len(trace')].k = "call_speak_immediately"
        /\ trace'[Len(trace')].a # NoText)
           => audio_queue' = <<[text |-> trace'[Len(trace')].a,
                                priority |-> immediate_priority]>>]_vars

\* C39: at most one OCR worker thread is alive at any time.
C39_OneWorker == Cardinality(ocr_workers) <= 1

====
